---- MODULE Spec2Model ----
(***************************************************************************)
(* Model of pkg/adapter: the Anthropic <-> OpenAI mappers and the two      *)
(* streaming translators.                                                  *)
(*                                                                         *)
(* Text is modelled as a sequence of tokens.  For tool-call argument text  *)
(* the tokens are "{", "}", ",", a member ("a" stands for "a":1 and "b"    *)
(* for "b":2), "n" (the literal null), " " (white space) and "x" (text     *)
(* that is not JSON).                                                      *)
(***************************************************************************)
EXTENDS Integers, Sequences, FiniteSets, TLC

VARIABLES
    ctxDone,              \* ctx.Done() has fired
    \* ---- ConvertAnthropicStreamToOpenAI (reverse translator, A -> B)
    revPc,                \* "loop" | "data" (an event line was read, its data line is next)
                          \* | "done" (returned nil) | "err" (returned ctx.Err())
    roleSent,
    nextToolIdx,
    contentIdxToToolIdx,  \* map[int]int, a function on the block indices seen
    toolArgsByToolIdx,    \* map[int]string
    revIn,                \* revIn[k]: the lines consumed by the k-th loop iteration
    revOut,               \* the chunks handed to emit, in order
    revSrc,               \* revSrc[i]: the loop iteration that emitted revOut[i]
    \* ---- ConvertOpenAIStreamToAnthropic (forward translator, B -> A)
    fwdPc,                \* "start" | "loop" | "done" (returned nil) | "err" (returned ctx.Err())
    sentTextStart,
    totalText,
    toolByIdx,            \* map[int]*toolBuf, a function on the call indices seen
    fwdIn,                \* fwdIn[k]: the line read by the k-th loop iteration
    fwdOut,               \* the events handed to enc, in order
    fwdSrc,               \* fwdSrc[i]: the call index (toolBuf.idx) of a tool block event, else -1
    \* ---- OpenAIToAnthropic (non-streaming response mapper, B -> A)
    respPc,               \* "call" | "ok" (returned a response) | "err" (returned an error)
                          \* | "back" (the response was mapped back to B)
    oresp,                \* the OpenAIChatResponse passed in
    aresp,                \* the AnthropicMessageResponse returned
    bresp,                \* the OpenAIChatResponse AnthropicToOpenAIResponse returned for aresp
    \* ---- AnthropicToOpenAI / ConvertMessagesToOpenAI (request mapper, A -> B)
    a2oPc,                \* "idle" | "call" | "ok" (returned a request) | "err" (returned an error)
    areq,                 \* the AnthropicMessageRequest passed in
    oreq,                 \* the OpenAIChatRequest returned (or passed to OpenAIToAnthropicRequest)
    oreqSrc,              \* oreqSrc[i]: the position in areq.messages of the message that
                          \* oreq.messages[i] was built from, 0 for the system content
    \* ---- OpenAIToAnthropicRequest (request mapper, B -> A)
    o2aPc,                \* "idle" | "call" | "ok" (returned a request)
    areqOut,              \* the AnthropicMessageRequest returned
    areqSrc,              \* areqSrc[i]: the position in oreq.messages of the message that
                          \* areqOut.messages[i] was built from
    \* ---- proxyToAnthropicStream (chat-completions streaming handler)
    hPc,                  \* "idle" | "call" | "failed" (an error response was written)
                          \* | "stream" (the translator is running) | "done" (returned)
    wTail                 \* what the handler itself wrote to w, after the lines its
                          \* callback wrote for the chunks of revOut

revVars == <<revPc, roleSent, nextToolIdx, contentIdxToToolIdx, toolArgsByToolIdx,
             revIn, revOut, revSrc>>

fwdVars == <<fwdPc, sentTextStart, totalText, toolByIdx, fwdIn, fwdOut, fwdSrc>>

respVars == <<respPc, oresp, aresp, bresp>>

reqVars == <<a2oPc, areq, oreq, oreqSrc, o2aPc, areqOut, areqSrc>>

handlerVars == <<hPc, wTail>>

vars == <<ctxDone, revVars, fwdVars, respVars, reqVars, handlerVars>>

nonRevVars == <<fwdVars, respVars, reqVars, handlerVars>>
nonFwdVars == <<revVars, respVars, reqVars, handlerVars>>
nonRespVars == <<ctxDone, revVars, fwdVars, reqVars, handlerVars>>
nonReqVars == <<ctxDone, revVars, fwdVars, respVars, handlerVars>>
nonHandlerVars == <<ctxDone, revVars, fwdVars, respVars, reqVars>>

\* ------------------------------------------------------------------ bounds
MaxFrames == 5      \* event/data pairs fed to the reverse translator
MaxBlock == 2       \* largest content-block index in the reverse translator's input
MaxLines == 5       \* lines fed to the forward translator
MaxCallIdx == 1     \* largest tool-call index in the forward translator's input
MaxToolCalls == 2   \* longest tool-call list of a non-streaming response
MaxParts == 3       \* most content blocks of one message of a request
MaxMsgs == 2        \* most messages of a request
MaxReads == 4       \* lines and pairs read by two translations together
MaxTools == 2       \* tool definitions of a request

\* ------------------------------------------------------------ text helpers
Range(s) == {s[i] : i \in 1..Len(s)}

RECURSIVE Flatten(_)
Flatten(ss) == IF ss = <<>> THEN <<>> ELSE Head(ss) \o Flatten(Tail(ss))

EmptyMap == [k \in {} |-> 0]

\* strings.TrimSpace(s) == ""
IsBlank(s) == \A i \in 1..Len(s) : s[i] = " "

\* -------------------------------------------------------- encoding/json
\* White space between tokens is insignificant.
Strip(s) == SelectSeq(s, LAMBDA t : t # " ")

Members == {"a", "b"}

\* t is an object: "{", members separated by ",", "}".
IsObjectText(t) ==
    /\ Len(t) >= 2 /\ t[1] = "{" /\ t[Len(t)] = "}"
    /\ \/ Len(t) = 2
       \/ /\ Len(t) % 2 = 1
          /\ \A i \in 2..(Len(t) - 1) :
                IF i % 2 = 0 THEN t[i] \in Members ELSE t[i] = ","

\* json.Valid
JsonValid(s) == LET t == Strip(s) IN t = <<"n">> \/ IsObjectText(t)

\* JSON values: null, or an object given by its key/value pairs.
JsonNull == [type |-> "null", members |-> {}]
JsonObject(ms) == [type |-> "object", members |-> ms]
EmptyObject == JsonObject({})
MemberValue(m) == IF m = "a" THEN <<"1">> ELSE <<"2">>

\* json.Unmarshal into interface{}, for a valid text.
JsonParse(s) ==
    LET t == Strip(s) IN
    IF t = <<"n">> THEN JsonNull
    ELSE JsonObject({<<t[i], MemberValue(t[i])>> : i \in {j \in 2..(Len(t) - 1) : j % 2 = 0}})

\* ------------------------------------------------- input lines (protocol A)
\* A line is blank, an event line (after trimming it starts with "event:"),
\* a data line (it starts with "data:") or anything else ("stray").
BlankLine == [kind |-> "blank"]
StrayLine == [kind |-> "stray"]
EventLine(ev) == [kind |-> "event", ev |-> ev]
DataLine(p) == [kind |-> "data", payload |-> p]

\* The payload of a data line is the JSON object it holds, with the fields
\* the translator reads, or BadJson when it does not parse.
BadJson == [json |-> "invalid"]
NoPayload == [type |-> "event"]
BlockStart(idx, t, id, name) ==
    [index |-> idx, content_block |-> [type |-> <<t>>, id |-> id, name |-> name]]
TextDelta(idx, str) == [index |-> idx, delta |-> [type |-> <<"text_delta">>, text |-> str]]
JsonDelta(idx, pj) ==
    [index |-> idx, delta |-> [type |-> <<"input_json_delta">>, partial_json |-> pj]]
JsonDeltaAlt(idx, pj, alt) ==
    [index |-> idx,
     delta |-> [type |-> <<"input_json_delta">>, partial_json |-> pj, delta |-> alt]]

\* json.Unmarshal succeeds; a field that is absent has its zero value.
JsonOk(p) == "json" \notin DOMAIN p
IndexOf(p) == IF "index" \in DOMAIN p THEN p.index ELSE 0
HasBlock(p) == "content_block" \in DOMAIN p
HasDelta(p) == "delta" \in DOMAIN p
StrField(obj, f) == IF f \in DOMAIN obj THEN obj[f] ELSE <<>>

\* ------------------------------------------ chunks emitted (protocol B)
\* send: the chunk's choices[0] is {index: 0, delta: delta}, with finish_reason
\* only when finishReason is not empty.
send(delta, finishReason) ==
    IF finishReason # "" THEN [delta |-> delta, finish_reason |-> finishReason]
    ELSE [delta |-> delta]

RoleDelta == [role |-> "assistant"]
ContentDelta(s) == [content |-> s]
NameDelta(id, toolIdx, name) ==
    [tool_calls |-> <<[id |-> id, type |-> "function", index |-> toolIdx,
                       function |-> [name |-> name]]>>]
\* Variant: the chunk carries the text accumulated for the call so far.
ArgsDeltaAccumulated(toolIdx, piece) ==
    [tool_calls |-> <<[index |-> toolIdx, type |-> "function",
                       function |-> [arguments |->
                           (IF toolIdx \in DOMAIN toolArgsByToolIdx
                            THEN toolArgsByToolIdx[toolIdx] ELSE <<>>) \o piece]]>>]

\* The delta of an argument chunk: the assigned index and the fragment.
ArgsDelta(toolIdx, piece) ==
    [tool_calls |-> <<[index |-> toolIdx, type |-> "function",
                       function |-> [arguments |-> piece]]>>]
EmptyDelta == <<>>

\* ------------------------------- ConvertAnthropicStreamToOpenAI, one event
\* The fragment of an input_json_delta: partial_json, or the string field
\* "delta" when partial_json is empty.
PieceOf(d) ==
    IF StrField(d, "partial_json") = <<>> /\ "delta" \in DOMAIN d THEN d.delta
    ELSE StrField(d, "partial_json")

\* Variant: the block's own index is used as the call index.
AssignBlockIdx(next, blockIdx) == blockIdx

\* Variant: one counter of call indices for the whole process, which the
\* calls buffered by a forward translation advance as well.
AssignToolIdxShared(next, blockIdx) == next + Cardinality(DOMAIN toolByIdx)

\* The target call index recorded at a tool_use content_block_start.
AssignToolIdx(next, blockIdx) == next

\* The map after a tool_use content_block_start of block index blockIdx.
RecordMapping(m, blockIdx, toolIdx) ==
    [k \in DOMAIN m \cup {blockIdx} |-> IF k = blockIdx THEN toolIdx ELSE m[k]]

\* Variant: the fragment goes to the call started last.
LookupLatest(m, blockIdx) == nextToolIdx - 1

\* The target call index an argument fragment of block index blockIdx goes to.
LookupToolIdx(m, blockIdx) == m[blockIdx]

AppendArgs(buf, toolIdx, piece) ==
    [k \in DOMAIN buf \cup {toolIdx} |->
        IF k = toolIdx THEN (IF k \in DOMAIN buf THEN buf[k] ELSE <<>>) \o piece
        ELSE buf[k]]

\* Emit ch in loop iteration src.
RevEmit(ch, src) ==
    /\ revOut' = Append(revOut, ch)
    /\ revSrc' = Append(revSrc, src)

RevNoEmit == UNCHANGED <<revOut, revSrc>>

RevKeep == UNCHANGED <<roleSent, nextToolIdx, contentIdxToToolIdx, toolArgsByToolIdx>>

\* Variant: every message_start announces the role.
RoleAlways(sent) == TRUE

\* The role is announced when it has not been sent.
RoleNeeded(sent) == ~sent

\* Variant: every content block that starts is taken as a tool invocation.
AnyBlockType(t) == TRUE

\* t == "tool_use", t being the type of the content block that starts.
IsToolUse(t) == t = <<"tool_use">>

\* The switch on ev, for the payload p, in loop iteration src.
RevDispatch(ev, p, src) ==
    CASE ev = "message_start" ->
           IF RoleNeeded(roleSent)
           THEN /\ RevEmit(send(RoleDelta, ""), src)
                /\ roleSent' = TRUE
                /\ UNCHANGED <<nextToolIdx, contentIdxToToolIdx, toolArgsByToolIdx>>
           ELSE RevNoEmit /\ RevKeep
      [] ev = "content_block_start" ->
           IF JsonOk(p) /\ HasBlock(p) /\ IsToolUse(StrField(p.content_block, "type"))
           THEN LET toolIdx == AssignToolIdx(nextToolIdx, IndexOf(p)) IN
                /\ contentIdxToToolIdx' = RecordMapping(contentIdxToToolIdx, IndexOf(p), toolIdx)
                /\ RevEmit(send(NameDelta(StrField(p.content_block, "id"), toolIdx,
                                          StrField(p.content_block, "name")), ""), src)
                /\ nextToolIdx' = nextToolIdx + 1
                /\ UNCHANGED <<roleSent, toolArgsByToolIdx>>
           ELSE RevNoEmit /\ RevKeep
      [] ev = "content_block_delta" ->
           IF ~JsonOk(p) \/ ~HasDelta(p) THEN RevNoEmit /\ RevKeep
           ELSE IF StrField(p.delta, "type") = <<"text_delta">>
           THEN /\ IF StrField(p.delta, "text") # <<>>
                   THEN RevEmit(send(ContentDelta(p.delta.text), ""), src)
                   ELSE RevNoEmit
                /\ RevKeep
           ELSE IF StrField(p.delta, "type") = <<"input_json_delta">>
           THEN LET piece == PieceOf(p.delta) IN
                IF IndexOf(p) \notin DOMAIN contentIdxToToolIdx THEN RevNoEmit /\ RevKeep
                ELSE LET toolIdx == LookupToolIdx(contentIdxToToolIdx, IndexOf(p)) IN
                     /\ toolArgsByToolIdx' = AppendArgs(toolArgsByToolIdx, toolIdx, piece)
                     /\ RevEmit(send(ArgsDelta(toolIdx, piece), ""), src)
                     /\ UNCHANGED <<roleSent, nextToolIdx, contentIdxToToolIdx>>
           ELSE RevNoEmit /\ RevKeep
      [] ev = "message_delta" -> RevNoEmit /\ RevKeep
      [] ev = "message_stop" -> RevEmit(send(EmptyDelta, "stop"), src) /\ RevKeep
      [] OTHER -> RevNoEmit /\ RevKeep

\* -------------------------- ConvertAnthropicStreamToOpenAI, loop iterations
\* Variant: after a line that is skipped the loop neither goes on nor ends.
SkippedLineStalls(pc) == "stalled"

\* Variant: a line that is skipped ends the translation with an error.
SkippedLineAborts(pc) == "err"

\* continue: after a line that is skipped the loop goes on.
SkippedLinePc(pc) == pc

\* The context is checked, then one line is read; a line that is not an
\* event line is skipped.
RevSkipLine(l1) ==
    /\ revPc = "loop" /\ ~ctxDone
    /\ l1.kind # "event"
    /\ revIn' = Append(revIn, <<l1>>)
    /\ RevNoEmit /\ RevKeep
    /\ revPc' = SkippedLinePc(revPc)
    /\ UNCHANGED <<ctxDone, nonRevVars>>

\* An event line followed by l2: a line without the data: prefix is dropped
\* with the event, a data line is dispatched on the event name.
RevEventLine(l1, l2) ==
    /\ revPc = "loop" /\ ~ctxDone
    /\ l1.kind = "event"
    /\ revIn' = Append(revIn, <<l1, l2>>)
    /\ IF l2.kind # "data" THEN RevNoEmit /\ RevKeep /\ revPc' = SkippedLinePc(revPc)
       ELSE RevDispatch(l1.ev, l2.payload, Len(revIn) + 1) /\ UNCHANGED revPc
    /\ UNCHANGED <<ctxDone, nonRevVars>>

\* An event line that is the last line of the input: the read of the data
\* line fails and the loop ends.
RevEventThenEOF(l1) ==
    /\ revPc = "loop" /\ ~ctxDone
    /\ l1.kind = "event"
    /\ revIn' = Append(revIn, <<l1>>)
    /\ revPc' = "done"
    /\ RevNoEmit /\ RevKeep
    /\ UNCHANGED <<ctxDone, nonRevVars>>

\* The same iteration in two steps. First the context is checked and the
\* event line is read.
RevReadEvent(l1) ==
    /\ revPc = "loop" /\ ~ctxDone
    /\ l1.kind = "event"
    /\ revIn' = Append(revIn, <<l1>>)
    /\ revPc' = "data"
    /\ RevNoEmit /\ RevKeep
    /\ UNCHANGED <<ctxDone, nonRevVars>>

\* Then the data line is read, without a look at the context, and the pair
\* is dispatched.
RevReadData(l2) ==
    /\ revPc = "data"
    /\ revIn' = [revIn EXCEPT ![Len(revIn)] = Append(@, l2)]
    /\ IF l2.kind # "data" THEN RevNoEmit /\ RevKeep /\ revPc' = SkippedLinePc("loop")
       ELSE RevDispatch(revIn[Len(revIn)][1].ev, l2.payload, Len(revIn)) /\ revPc' = "loop"
    /\ UNCHANGED <<ctxDone, nonRevVars>>

\* The read of the data line fails: the loop ends.
RevDataEOF ==
    /\ revPc = "data"
    /\ revPc' = "done"
    /\ RevNoEmit /\ RevKeep
    /\ UNCHANGED <<revIn, ctxDone, nonRevVars>>

\* End of input at the head of the loop.
RevEOF ==
    /\ revPc = "loop" /\ ~ctxDone
    /\ revPc' = "done"
    /\ UNCHANGED <<revIn, ctxDone, nonRevVars>>
    /\ RevNoEmit /\ RevKeep

\* The context is done at the head of the loop: return ctx.Err().
RevCancelled ==
    /\ revPc = "loop" /\ ctxDone
    /\ revPc' = "err"
    /\ UNCHANGED <<revIn, ctxDone, nonRevVars>>
    /\ RevNoEmit /\ RevKeep

RevInit ==
    /\ revPc = "loop"
    /\ roleSent = FALSE
    /\ nextToolIdx = 0
    /\ contentIdxToToolIdx = EmptyMap
    /\ toolArgsByToolIdx = EmptyMap
    /\ revIn = <<>>
    /\ revOut = <<>>
    /\ revSrc = <<>>

\* ---------------------------------------- inputs of the reverse translator
ToolBlocks == 1..MaxBlock
PieceA == <<"{", "a">>          \* {"a":1
PieceB == <<",", "b", "}">>     \* ,"b":2}
PieceZ == <<"z">>

CallId(b) == <<"call", ToString(b)>>
CallName(b) == <<"fn", ToString(b)>>

\* Well-formed event/data pairs of content blocks: a text block 0 and the
\* tool invocations of the blocks 1..MaxBlock.
RevFrames ==
    {[ev |-> "content_block_start", payload |-> BlockStart(0, "text", <<>>, <<>>)],
     [ev |-> "content_block_delta", payload |-> TextDelta(0, <<"Hi">>)]}
    \cup {[ev |-> "content_block_start", payload |-> BlockStart(b, "tool_use", CallId(b), CallName(b))]
            : b \in ToolBlocks}
    \cup {[ev |-> "content_block_delta", payload |-> JsonDelta(b, PieceA)] : b \in ToolBlocks}
    \cup {[ev |-> "content_block_delta", payload |-> JsonDelta(1, PieceB)],
          [ev |-> "content_block_delta", payload |-> JsonDeltaAlt(1, <<>>, PieceZ)]}

\* Tool invocations that all carry the same id and name, one per block
\* index, and an argument fragment for each block index.
RevKeyFrames ==
    {[ev |-> "content_block_start",
      payload |-> BlockStart(b, "tool_use", <<"call", "1">>, <<"fn", "1">>)] : b \in ToolBlocks}
    \cup {[ev |-> "content_block_delta", payload |-> JsonDelta(b, PieceA)] : b \in ToolBlocks}

\* Message-level event/data pairs, one of them with a payload that is not
\* JSON, and a text delta.
RevMessageFrames ==
    {[ev |-> "message_start", payload |-> NoPayload],
     [ev |-> "message_start", payload |-> BadJson],
     [ev |-> "content_block_delta", payload |-> TextDelta(0, <<"Hi">>)],
     [ev |-> "message_stop", payload |-> NoPayload]}

\* Lines that are not event lines.
RevPlainLines == {BlankLine, StrayLine}

\* Event lines followed by a line without the data: prefix.
RevLonePairs ==
    {<<EventLine("message_start"), BlankLine>>,
     <<EventLine("ping"), EventLine("message_start")>>}

\* A tool invocation of block 1 with a fragment and a message_start, and
\* the pairs that carry nothing to forward: message_delta,
\* content_block_stop, the start of a text block, an event of unknown
\* name, a fragment for block 0, which no tool invocation started.
RevNoOpFrames ==
    {[ev |-> "message_start", payload |-> NoPayload],
     [ev |-> "content_block_start", payload |-> BlockStart(1, "tool_use", CallId(1), CallName(1))],
     [ev |-> "content_block_delta", payload |-> JsonDelta(1, PieceA)],
     [ev |-> "message_delta", payload |-> NoPayload],
     [ev |-> "content_block_stop", payload |-> NoPayload],
     [ev |-> "content_block_start", payload |-> BlockStart(0, "text", <<>>, <<>>)],
     [ev |-> "ping", payload |-> NoPayload],
     [ev |-> "content_block_delta", payload |-> JsonDelta(0, PieceA)]}

RevReadFrame(f) ==
    /\ Len(revIn) < MaxFrames
    /\ RevEventLine(EventLine(f.ev), DataLine(f.payload))
RevReadPlain(l) == Len(revIn) < MaxFrames /\ RevSkipLine(l)
RevReadLone(pr) == Len(revIn) < MaxFrames /\ RevEventLine(pr[1], pr[2])

\* The event names of the lines fed one by one, "ping" being a name the
\* translator does not know, and the lines that may follow an event line of
\* each name: its data line, a data line that is not JSON, a line without
\* the data: prefix.
RevEventNames ==
    {"message_start", "content_block_start", "content_block_delta", "message_stop", "ping"}
RevDataFor(ev) ==
    CASE ev = "message_start" -> {DataLine(NoPayload), StrayLine}
      [] ev = "content_block_start" ->
           {DataLine(BlockStart(1, "tool_use", CallId(1), CallName(1)))}
      [] ev = "content_block_delta" ->
           {DataLine(JsonDelta(1, PieceA)), DataLine(TextDelta(0, <<"Hi">>)), DataLine(BadJson)}
      [] OTHER -> {DataLine(NoPayload)}

RevFrame(f) ==
    /\ Len(revIn) < MaxFrames
    /\ RevEventLine(EventLine(f.ev), DataLine(f.payload))

\* ================================================================
\* ConvertOpenAIStreamToAnthropic (forward translator, B -> A)
\* ================================================================

\* ------------------------------------------------- input lines (protocol B)
\* kind: "blank" (empty after trimming), "stray" (no "data: " prefix),
\* "done" (data: [DONE]), "badjson" (payload is not a chunk), "chunk".
FwdPlainLine(kind) == [kind |-> kind]
Choice(content, toolCalls) == [content |-> content, tool_calls |-> toolCalls]
ChunkLine(choices) == [kind |-> "chunk", choices |-> choices]
ToolCallDelta(idx, id, name, args) ==
    [index |-> idx, id |-> id, name |-> name, arguments |-> args]

\* ------------------------------------------------ events emitted (protocol A)
MessageStart ==
    [event |-> "message_start",
     message |-> [type |-> "message", role |-> "assistant", content |-> <<>>]]
TextBlockStart ==
    [event |-> "content_block_start", index |-> 0,
     content_block |-> [type |-> "text", text |-> <<>>]]
TextBlockDelta(text) ==
    [event |-> "content_block_delta", index |-> 0,
     delta |-> [type |-> "text_delta", text |-> text]]
BlockStop(index) == [event |-> "content_block_stop", index |-> index]
ToolBlockStart(index, b, input) ==
    [event |-> "content_block_start", index |-> index,
     content_block |-> [type |-> "tool_use", id |-> b.id, name |-> b.name, input |-> input]]
MessageDelta(outputTokens) ==
    [event |-> "message_delta", delta |-> [stop_reason |-> "end_turn"],
     usage |-> [input_tokens |-> 0, output_tokens |-> outputTokens]]
MessageStop == [event |-> "message_stop"]

\* ----------------------------------------------------- tool-call buffering
NewToolBuf(idx) == [id |-> <<>>, name |-> <<>>, idx |-> idx, args |-> <<>>]

\* Variant: a delta that carries a name goes to the buffer that already has
\* that name, whatever its call index.
ApplyToolCallByName(tb, tc) ==
    LET same == {k \in DOMAIN tb : tc.name # <<>> /\ tb[k].name = tc.name}
        key == IF same # {} THEN CHOOSE k \in same : TRUE ELSE tc.index
        b0 == IF key \in DOMAIN tb THEN tb[key] ELSE NewToolBuf(key)
        b1 == [b0 EXCEPT !.id = IF tc.id # <<>> THEN tc.id ELSE @,
                         !.name = IF tc.name # <<>> THEN tc.name ELSE @,
                         !.args = IF tc.arguments # <<>> THEN @ \o tc.arguments ELSE @]
    IN [k \in DOMAIN tb \cup {key} |-> IF k = key THEN b1 ELSE tb[k]]

\* Variant: an empty id or name of a later delta replaces the one received.
ApplyToolCallErase(tb, tc) ==
    LET b0 == IF tc.index \in DOMAIN tb THEN tb[tc.index] ELSE NewToolBuf(tc.index)
        b1 == [b0 EXCEPT !.id = tc.id, !.name = tc.name,
                         !.args = IF tc.arguments # <<>> THEN @ \o tc.arguments ELSE @]
    IN [k \in DOMAIN tb \cup {tc.index} |-> IF k = tc.index THEN b1 ELSE tb[k]]

\* One tool-call delta: the buffer of its call index is created when first
\* seen, a non-empty id or name replaces the old one, arguments are appended.
ApplyToolCall(tb, tc) ==
    LET b0 == IF tc.index \in DOMAIN tb THEN tb[tc.index] ELSE NewToolBuf(tc.index)
        b1 == [b0 EXCEPT !.id = IF tc.id # <<>> THEN tc.id ELSE @,
                         !.name = IF tc.name # <<>> THEN tc.name ELSE @,
                         !.args = IF tc.arguments # <<>> THEN @ \o tc.arguments ELSE @]
    IN [k \in DOMAIN tb \cup {tc.index} |-> IF k = tc.index THEN b1 ELSE tb[k]]

RECURSIVE ApplyToolCalls(_, _)
ApplyToolCalls(tb, tcs) ==
    IF tcs = <<>> THEN tb ELSE ApplyToolCalls(ApplyToolCall(tb, Head(tcs)), Tail(tcs))

\* --------------------------------------------------------- end of the input
RECURSIVE SortAsc(_)
SortAsc(S) ==
    IF S = {} THEN <<>>
    ELSE LET m == CHOOSE x \in S : \A y \in S : x <= y IN <<m>> \o SortAsc(S \ {m})

RECURSIVE SortDesc(_)
SortDesc(S) ==
    IF S = {} THEN <<>>
    ELSE LET m == CHOOSE x \in S : \A y \in S : x >= y IN <<m>> \o SortDesc(S \ {m})

\* Variant: the call indices in descending order.
IdxsDescending(tb) == SortDesc(DOMAIN tb)

\* idxs: the keys of toolByIdx after sort.Ints.
SortedIdxs(tb) == SortAsc(DOMAIN tb)

\* Variant: the argument text is wrapped when it is not valid JSON, as in the
\* non-streaming mapper.
StreamInputWrapped(args) ==
    IF JsonValid(args) THEN JsonParse(args) ELSE JsonObject({<<"_", args>>})

\* inputObj: the parsed argument text, or the empty object when the text is
\* blank or not valid JSON.
StreamInput(args) ==
    IF ~IsBlank(args) /\ JsonValid(args) THEN JsonParse(args) ELSE EmptyObject

\* The content-block index of the i-th buffered call (i from 0), sent being
\* sentTextStart.
ToolBlockIndex(i, sent) == i + 1

\* Variant: the block is started and never stopped.
ToolBlockNoStop(index, b) == <<ToolBlockStart(index, b, StreamInput(b.args))>>

\* The events of one buffered call: its start with the parsed input, then
\* its stop.
ToolBlockEvents(index, b) ==
    <<ToolBlockStart(index, b, StreamInput(b.args)), BlockStop(index)>>

\* The events of the buffered calls idxs[i..], with the call index of each.
RECURSIVE ToolBlocksFrom(_, _, _, _)
ToolBlocksFrom(i, idxs, tb, sent) ==
    IF i > Len(idxs) THEN <<>>
    ELSE LET evs == ToolBlockEvents(ToolBlockIndex(i - 1, sent), tb[idxs[i]])
         IN [j \in 1..Len(evs) |-> [ev |-> evs[j], call |-> idxs[i]]]
            \o ToolBlocksFrom(i + 1, idxs, tb, sent)

\* Variant: message_delta is emitted before the tool blocks.
ClosingDeltaFirst(sent, total, tb) ==
    (IF sent THEN <<[ev |-> BlockStop(0), call |-> -1]>> ELSE <<>>)
    \o <<[ev |-> MessageDelta(Len(total) \div 4), call |-> -1]>>
    \o ToolBlocksFrom(1, SortedIdxs(tb), tb, sent)
    \o <<[ev |-> MessageStop, call |-> -1]>>

\* Everything emitted after the loop.
Closing(sent, total, tb) ==
    (IF sent THEN <<[ev |-> BlockStop(0), call |-> -1]>> ELSE <<>>)
    \o ToolBlocksFrom(1, SortedIdxs(tb), tb, sent)
    \o <<[ev |-> MessageDelta(Len(total) \div 4), call |-> -1],
         [ev |-> MessageStop, call |-> -1]>>

FwdEmitAll(tagged) ==
    /\ fwdOut' = fwdOut \o [i \in 1..Len(tagged) |-> tagged[i].ev]
    /\ fwdSrc' = fwdSrc \o [i \in 1..Len(tagged) |-> tagged[i].call]

FwdFinish ==
    /\ FwdEmitAll(Closing(sentTextStart, totalText, toolByIdx))
    /\ fwdPc' = "done"
    /\ UNCHANGED <<sentTextStart, totalText, toolByIdx>>

\* ------------------------------------------------------------------ actions
\* Variant: the text block is started again at every text delta.
TextEventsRestart(sent, content) ==
    <<[ev |-> TextBlockStart, call |-> -1], [ev |-> TextBlockDelta(content), call |-> -1]>>

\* Variant: the text of a delta is held back, only the start of the text
\* block is sent when the line is read.
TextEventsWithheld(sent, content) ==
    IF ~sent THEN <<[ev |-> TextBlockStart, call |-> -1]>> ELSE <<>>

\* The events of one text delta: the start of the text block when it has
\* not been sent, then the delta.
TextEvents(sent, content) ==
    (IF ~sent THEN <<[ev |-> TextBlockStart, call |-> -1]>> ELSE <<>>)
    \o <<[ev |-> TextBlockDelta(content), call |-> -1]>>

\* message_start is emitted before the loop is entered.
FwdStart ==
    /\ fwdPc = "start"
    /\ FwdEmitAll(<<[ev |-> MessageStart, call |-> -1]>>)
    /\ fwdPc' = "loop"
    /\ UNCHANGED <<sentTextStart, totalText, toolByIdx, fwdIn, ctxDone, nonFwdVars>>

\* Variant: the terminator is a payload like any other; it is not JSON and
\* the line is skipped.
NeverTerminator(l) == FALSE

\* payload == "[DONE]": the line ends the loop.
IsTerminator(l) == l.kind = "done"

\* One loop iteration that reads the line l.
FwdLine(l) ==
    /\ fwdPc = "loop" /\ ~ctxDone
    /\ fwdIn' = Append(fwdIn, l)
    /\ IF IsTerminator(l) THEN FwdFinish
       ELSE IF l.kind # "chunk" \/ l.choices = <<>>
       THEN /\ fwdPc' = SkippedLinePc(fwdPc)
            /\ UNCHANGED <<sentTextStart, totalText, toolByIdx, fwdOut, fwdSrc>>
       ELSE LET d == l.choices[1] IN
            /\ IF d.content # <<>>
               THEN /\ FwdEmitAll(TextEvents(sentTextStart, d.content))
                    /\ sentTextStart' = TRUE
                    /\ totalText' = totalText \o d.content
               ELSE UNCHANGED <<sentTextStart, totalText, fwdOut, fwdSrc>>
            /\ toolByIdx' = ApplyToolCalls(toolByIdx, d.tool_calls)
            /\ UNCHANGED fwdPc
    /\ UNCHANGED <<ctxDone, nonFwdVars>>

\* The read fails (end of input): the loop ends.
FwdEOF ==
    /\ fwdPc = "loop" /\ ~ctxDone
    /\ FwdFinish
    /\ UNCHANGED <<fwdIn, ctxDone, nonFwdVars>>

\* The context is done at the head of the loop: return ctx.Err().
FwdCancelled ==
    /\ fwdPc = "loop" /\ ctxDone
    /\ fwdPc' = "err"
    /\ UNCHANGED <<sentTextStart, totalText, toolByIdx, fwdIn, fwdOut, fwdSrc, ctxDone, nonFwdVars>>

FwdInit ==
    /\ fwdPc = "start"
    /\ sentTextStart = FALSE
    /\ totalText = <<>>
    /\ toolByIdx = EmptyMap
    /\ fwdIn = <<>>
    /\ fwdOut = <<>>
    /\ fwdSrc = <<>>

\* ----------------------------------------- inputs of the forward translator
CallIdxs == 0..MaxCallIdx
ArgsX == <<"x">>          \* NOT_JSON
ArgsBlank == <<" ">>
TextHe == <<"H", "e">>

\* A call's first delta carries its id and name, the later ones its
\* argument fragments.
HeadDelta(c) == ToolCallDelta(c, <<"call", ToString(c)>>, <<"fn", ToString(c)>>, <<>>)
ArgsOnlyDelta(c, piece) == ToolCallDelta(c, <<>>, <<>>, piece)

FwdLines ==
    {FwdPlainLine("done"),
     ChunkLine(<<Choice(TextHe, <<>>)>>),
     ChunkLine(<<Choice(<<>>, <<HeadDelta(1)>>)>>),
     ChunkLine(<<Choice(<<>>, <<ArgsOnlyDelta(0, PieceB)>>)>>)}
    \cup {ChunkLine(<<Choice(<<>>, <<ArgsOnlyDelta(c, PieceA)>>)>>) : c \in CallIdxs}
    \cup {ChunkLine(<<Choice(<<>>, <<ArgsOnlyDelta(1, pc)>>)>>) : pc \in {ArgsX, ArgsBlank}}

\* Text deltas, alone and with a tool-call delta, a tool-call delta alone, a
\* chunk whose first choice is empty, a line that is not JSON, the terminator.
TextLlo == <<"llo">>
FwdTextLines ==
    {FwdPlainLine("done"), FwdPlainLine("badjson"),
     ChunkLine(<<Choice(TextHe, <<>>)>>),
     ChunkLine(<<Choice(TextLlo, <<HeadDelta(0)>>)>>),
     ChunkLine(<<Choice(<<>>, <<ArgsOnlyDelta(0, PieceA)>>)>>),
     ChunkLine(<<Choice(<<>>, <<>>), Choice(TextLlo, <<>>)>>)}

\* Tool-call deltas whose ids and names differ within one call index and
\* agree across two call indices, with empty ids and names after non-empty
\* ones, alone and two in one chunk.
FwdKeyLines ==
    {FwdPlainLine("done"),
     ChunkLine(<<Choice(<<>>, <<ToolCallDelta(0, <<"call", "1">>, <<"fn", "1">>, <<>>)>>)>>),
     ChunkLine(<<Choice(<<>>, <<ToolCallDelta(0, <<"call", "2">>, <<>>, PieceA)>>)>>),
     ChunkLine(<<Choice(<<>>, <<ToolCallDelta(0, <<>>, <<"fn", "2">>, PieceB)>>)>>),
     ChunkLine(<<Choice(<<>>, <<ToolCallDelta(MaxCallIdx, <<"call", "1">>, <<"fn", "1">>, PieceA)>>)>>),
     ChunkLine(<<Choice(<<>>, <<ToolCallDelta(MaxCallIdx, <<>>, <<>>, <<>>)>>)>>),
     ChunkLine(<<Choice(<<>>, <<ToolCallDelta(MaxCallIdx, <<"call", "1">>, <<"fn", "1">>, PieceB),
                               ToolCallDelta(0, <<"call", "1">>, <<"fn", "1">>, PieceA)>>)>>)}

\* A text delta, a tool-call delta, a line that is not JSON, a line without
\* the data: prefix, the terminator.
FwdStreamLines ==
    {FwdPlainLine("done"), FwdPlainLine("badjson"), FwdPlainLine("stray"),
     ChunkLine(<<Choice(TextHe, <<>>)>>),
     ChunkLine(<<Choice(<<>>, <<ArgsOnlyDelta(0, PieceA)>>)>>)}

\* The terminator, a blank line, a line without the data: prefix, a line
\* that is not JSON, a chunk without choices, a text delta, the first delta
\* of a tool call.
FwdFramingLines ==
    {FwdPlainLine("done"), FwdPlainLine("blank"), FwdPlainLine("stray"),
     FwdPlainLine("badjson"), ChunkLine(<<>>),
     ChunkLine(<<Choice(TextHe, <<>>)>>),
     ChunkLine(<<Choice(<<>>, <<HeadDelta(0)>>)>>)}

FwdRead(l) == Len(fwdIn) < MaxLines /\ FwdLine(l)


\* ================================================================
\* OpenAIToAnthropic / mapOpenAIToAnthropic (non-streaming response, B -> A)
\* ================================================================

\* strings.Join(buf, "\n\n")
RECURSIVE JoinBlankLine(_)
JoinBlankLine(buf) ==
    IF buf = <<>> THEN <<>>
    ELSE IF Len(buf) = 1 THEN buf[1]
    ELSE buf[1] \o <<"\n\n">> \o JoinBlankLine(Tail(buf))

\* Message content (interface{}): a string, an array of parts, nil, or
\* something else ("other": an object, a number).
NilContent == [kind |-> "nil", text |-> <<>>, parts |-> <<>>]
StringContent(str) == [kind |-> "string", text |-> str, parts |-> <<>>]
ArrayContent(parts) == [kind |-> "array", text |-> <<>>, parts |-> parts]
OtherContent == [kind |-> "other", text |-> <<>>, parts |-> <<>>]
Part(type, text) == [type |-> type, text |-> text]

ToolCall(id, name, args) == [id |-> id, type |-> "function", name |-> name, arguments |-> args]
RespChoice(finish, content, toolCalls) ==
    [finish_reason |-> finish, message |-> [content |-> content, tool_calls |-> toolCalls]]

\* *string and *AnthropicUsage
NilPtr == [nil |-> TRUE, val |-> <<>>]
Ptr(v) == [nil |-> FALSE, val |-> v]

TextBlock(text) == [type |-> "text", text |-> text]
ToolUseBlock(id, name, input) == [type |-> "tool_use", id |-> id, name |-> name, input |-> input]

\* The text parts of an array content that are not blank.
ArrayTexts(parts) ==
    LET sel == SelectSeq(parts, LAMBDA pt : pt.type = "text" /\ ~IsBlank(pt.text))
    IN [i \in 1..Len(sel) |-> sel[i].text]

\* The text block of the mapped response, if any.
RespTextBlocks(content) ==
    IF content.kind = "string" /\ content.text # <<>> THEN <<TextBlock(content.text)>>
    ELSE IF content.kind = "array" /\ ArrayTexts(content.parts) # <<>>
    THEN <<TextBlock(JoinBlankLine(ArrayTexts(content.parts)))>>
    ELSE <<>>

\* Variant: invalid argument text becomes the empty object, as in the
\* streaming translator.
NonStreamInputEmpty(args) == IF JsonValid(args) THEN JsonParse(args) ELSE EmptyObject

\* argsObj: the parsed arguments, or {"_": raw} when they are not valid JSON.
NonStreamInput(args) ==
    IF JsonValid(args) THEN JsonParse(args) ELSE JsonObject({<<"_", args>>})

RespToolBlocks(toolCalls) ==
    [i \in 1..Len(toolCalls) |->
        ToolUseBlock(toolCalls[i].id, toolCalls[i].name, NonStreamInput(toolCalls[i].arguments))]

\* stopReason: nil when B reported no finish reason, else the reason, replaced
\* by tool_use when the choice has tool calls.
RespStopReason(choice) ==
    IF choice.finish_reason # ""
    THEN Ptr(IF Len(choice.message.tool_calls) > 0 THEN "tool_use" ELSE choice.finish_reason)
    ELSE NilPtr

RespUsage(usage) ==
    IF usage.nil THEN NilPtr
    ELSE Ptr([input_tokens |-> usage.val.prompt_tokens,
              output_tokens |-> usage.val.completion_tokens])

\* Variant: the last choice is the one that is mapped.
mapLastChoice(o) ==
    LET choice == o.choices[Len(o.choices)] IN
    [type |-> "message", role |-> "assistant",
     content |-> RespTextBlocks(choice.message.content)
                 \o RespToolBlocks(choice.message.tool_calls),
     stop_reason |-> RespStopReason(choice),
     stop_sequence |-> NilPtr,
     usage |-> RespUsage(o.usage)]

mapOpenAIToAnthropic(o) ==
    LET choice == o.choices[1] IN
    [type |-> "message", role |-> "assistant",
     content |-> RespTextBlocks(choice.message.content)
                 \o RespToolBlocks(choice.message.tool_calls),
     stop_reason |-> RespStopReason(choice),
     stop_sequence |-> NilPtr,
     usage |-> RespUsage(o.usage)]

\* The call: an error when there are no choices, else the mapped response.
OpenAIToAnthropic ==
    /\ respPc = "call"
    /\ IF Len(oresp.choices) = 0
       THEN respPc' = "err" /\ aresp' = <<>>
       ELSE respPc' = "ok" /\ aresp' = mapOpenAIToAnthropic(oresp)
    /\ UNCHANGED <<oresp, bresp, nonRespVars>>

\* ------------------------------------------ inputs of the response mapper
ArgsObjA == <<"{", "a", "}">>     \* {"a":1}
ArgsNull == <<"n">>               \* null
RespArgs == {<<>>, ArgsX, ArgsObjA, ArgsNull}
FinishReasons == {"", "stop", "length", "tool_calls", "tool_use"}

\* The call lists of at most MaxToolCalls calls, the i-th with id call_i.
ToolCallLists ==
    UNION {{[i \in 1..n |-> ToolCall(<<"call", ToString(i)>>, <<"fn", ToString(i)>>, f[i])]
              : f \in [1..n -> RespArgs]} : n \in 0..MaxToolCalls}

RespContents ==
    {NilContent, StringContent(<<>>), StringContent(<<"H", "i">>),
     ArrayContent(<<Part("text", <<"A">>), Part("text", <<" ">>), Part("text", <<"B">>)>>)}

FirstChoices ==
    {RespChoice(fr, c, tcs) : fr \in FinishReasons, c \in RespContents, tcs \in ToolCallLists}

\* A second choice, never used by the mapper.
OtherChoice ==
    RespChoice("tool_calls", StringContent(<<"O">>),
               <<ToolCall(<<"call", "9">>, <<"fn", "9">>, ArgsX)>>)

SomeUsage == Ptr([prompt_tokens |-> 3, completion_tokens |-> 5])

RespInputs ==
    {[choices |-> cs, usage |-> u] :
        cs \in {<<>>} \cup {<<c>> : c \in FirstChoices} \cup {<<c, OtherChoice>> : c \in FirstChoices},
        u \in {NilPtr, SomeUsage}}


\* ================================================================
\* AnthropicToOpenAI / ConvertMessagesToOpenAI (request mapper, A -> B)
\* ================================================================

\* ---------------------------------------------------------- json.Marshal
\* The text of a JSON value: object keys in sorted order, no white space.
\* The member "_" of the fallback object {"_": raw} is written as the token
\* "_" followed by the raw text it holds.
KeyRank(k) == IF k = "_" THEN 0 ELSE IF k = "a" THEN 1 ELSE 2

RECURSIVE MembersText(_)
MembersText(ms) ==
    IF ms = {} THEN <<>>
    ELSE LET m == CHOOSE x \in ms : \A y \in ms : KeyRank(x[1]) <= KeyRank(y[1])
             t == IF m[1] \in Members THEN <<m[1]>> ELSE <<m[1]>> \o m[2]
         IN IF ms = {m} THEN t ELSE t \o <<",">> \o MembersText(ms \ {m})

JsonMarshal(v) ==
    IF v.type = "null" THEN <<"n">> ELSE <<"{">> \o MembersText(v.members) \o <<"}">>

\* ------------------------------------------------------- json.RawMessage
\* A raw message is absent (length 0), the literal null, a JSON string, an
\* array of content blocks, another JSON text (an object's or a null's
\* tokens), or something that decodes as none of these ("other": a number,
\* an object where a string or an array is expected).
RawAbsent == [kind |-> "absent"]
RawNull == [kind |-> "null"]
RawString(str) == [kind |-> "string", text |-> str]
RawArray(blocks) == [kind |-> "array", blocks |-> blocks]
RawJson(t) == [kind |-> "json", text |-> t]
RawOther == [kind |-> "other"]

\* A tool_result's content of a shape that is neither a string nor nil.
ObjectContent(v) == [kind |-> "object", text |-> <<>>, parts |-> <<>>, value |-> v]

\* AnthropicContent. On the wire (inside a raw array) input is RawAbsent,
\* RawNull or RawJson; decoded it is a *json.RawMessage.
AnthropicContent(type, text, id, name, input, toolUseID, content) ==
    [type |-> type, text |-> text, id |-> id, name |-> name, input |-> input,
     tool_use_id |-> toolUseID, content |-> content]
TextContent(text) == AnthropicContent("text", text, <<>>, <<>>, NilPtr, <<>>, NilContent)

\* json.Unmarshal of one block: an absent or null input leaves the pointer nil.
DecodeBlock(w) ==
    [w EXCEPT !.input = IF w.input.kind = "json" THEN Ptr(w.input) ELSE NilPtr]

\* parts and err of parseAnthropicContent.
parseAnthropicContent(raw) ==
    IF raw.kind \in {"absent", "null"} THEN [parts |-> <<>>, err |-> FALSE]
    ELSE IF raw.kind = "string" THEN [parts |-> <<TextContent(raw.text)>>, err |-> FALSE]
    ELSE IF raw.kind = "array"
    THEN [parts |-> [i \in 1..Len(raw.blocks) |-> DecodeBlock(raw.blocks[i])], err |-> FALSE]
    ELSE [parts |-> <<>>, err |-> TRUE]

\* ------------------------------------------------------------ OpenAIMessage
OpenAIMessage(role, content, toolCallID, toolCalls) ==
    [role |-> role, content |-> content, tool_call_id |-> toolCallID, tool_calls |-> toolCalls]

\* The texts of the text parts that are not blank.
NonBlankTexts(parts) ==
    LET sel == SelectSeq(parts, LAMBDA p : p.type = "text" /\ ~IsBlank(p.text))
    IN [i \in 1..Len(sel) |-> sel[i].text]

\* Variant: a system content that is only white space is passed on.
systemKeepBlank(sysRaw) ==
    IF sysRaw.kind = "string"
    THEN <<OpenAIMessage("system", StringContent(sysRaw.text), <<>>, <<>>)>>
    ELSE IF sysRaw.kind = "array" /\ Len(sysRaw.blocks) > 0
    THEN <<OpenAIMessage("system",
             StringContent(JoinBlankLine([i \in 1..Len(sysRaw.blocks) |-> sysRaw.blocks[i].text])),
             <<>>, <<>>)>>
    ELSE <<>>

\* The system message of the request, as a list of no or one message.
systemToOpenAI(sysRaw) ==
    IF sysRaw.kind \in {"absent", "null"} THEN <<>>
    ELSE IF sysRaw.kind = "string" /\ ~IsBlank(sysRaw.text)
    THEN <<OpenAIMessage("system", StringContent(sysRaw.text), <<>>, <<>>)>>
    ELSE LET r == parseAnthropicContent(sysRaw)
             buf == NonBlankTexts(r.parts)
         IN IF ~r.err /\ Len(r.parts) > 0 /\ Len(buf) > 0
            THEN <<OpenAIMessage("system", StringContent(JoinBlankLine(buf)), <<>>, <<>>)>>
            ELSE <<>>

\* ------------------------------------------------------------ user messages
\* Variant: a user message is appended also when no text is pending.
flushUserAlways(out, pendingUserText) ==
    Append(out, OpenAIMessage("user", StringContent(JoinBlankLine(pendingUserText)), <<>>, <<>>))

\* flushUser: the pending texts become one user message.
flushUser(out, pendingUserText) ==
    IF Len(pendingUserText) > 0
    THEN Append(out, OpenAIMessage("user", StringContent(JoinBlankLine(pendingUserText)),
                                   <<>>, <<>>))
    ELSE out

\* json.Marshal of a content that is neither a string nor nil: an object,
\* an array of parts, or OtherContent (taken to be a number).
PartText(p) == <<"{", p.type>> \o p.text \o <<"}">>
OtherText == <<"7">>
MarshalValue(v) ==
    IF v.kind = "object" THEN JsonMarshal(v.value)
    ELSE IF v.kind = "array"
    THEN <<"[">> \o Flatten([i \in 1..Len(v.parts) |-> PartText(v.parts[i])]) \o <<"]">>
    ELSE OtherText

\* contentStr of a tool result: the string, "" for nil, else its JSON text.
ContentStr(v) ==
    IF v.kind = "string" THEN v.text
    ELSE IF v.kind = "nil" THEN <<>>
    ELSE MarshalValue(v)

\* The loop over the parts of a user message.
RECURSIVE UserParts(_, _, _)
UserParts(parts, pendingUserText, out) ==
    IF parts = <<>> THEN flushUser(out, pendingUserText)
    ELSE LET p == Head(parts) IN
         IF p.type = "text"
         THEN UserParts(Tail(parts),
                        IF ~IsBlank(p.text) THEN Append(pendingUserText, p.text)
                        ELSE pendingUserText,
                        out)
         ELSE IF p.type = "tool_result"
         THEN UserParts(Tail(parts), <<>>,
                        Append(flushUser(out, pendingUserText),
                               OpenAIMessage("tool", StringContent(ContentStr(p.content)),
                                             p.tool_use_id, <<>>)))
         ELSE UserParts(Tail(parts), pendingUserText, out)

\* ------------------------------------------------------- assistant messages
EmptyObjectText == <<"{", "}">>

\* Variant: the arguments are always the default.
ToolUseArgsDefault(input) == EmptyObjectText

\* args of a tool_use block: "{}" unless the input is there.
ToolUseArgs(input) ==
    IF ~input.nil /\ input.val.kind # "absent" THEN input.val.text ELSE EmptyObjectText

AssistantMessage(parts) ==
    LET texts == SelectSeq(parts, LAMBDA p : p.type = "text" /\ p.text # <<>>)
        textBuf == [i \in 1..Len(texts) |-> texts[i].text]
        uses == SelectSeq(parts, LAMBDA p : p.type = "tool_use")
        toolCalls == [i \in 1..Len(uses) |->
                         ToolCall(uses[i].id, uses[i].name, ToolUseArgs(uses[i].input))]
    IN OpenAIMessage("assistant",
                     IF Len(textBuf) > 0 THEN StringContent(JoinBlankLine(textBuf))
                     ELSE NilContent,
                     <<>>, toolCalls)

\* ------------------------------------------------------------- the request
\* Variant: the error of parseAnthropicContent is ignored.
ParseIgnored(r) == FALSE

\* err != nil after parseAnthropicContent.
ParseFailed(r) == r.err

\* Variant: the messages of a source message are put right after the
\* leading system message, before those of the earlier source messages.
RECURSIVE ConvertFromNewestFirst(_, _, _)
ConvertFromNewestFirst(msgs, k, acc) ==
    IF k > Len(msgs) THEN acc
    ELSE LET r == parseAnthropicContent(msgs[k].content) IN
         IF r.err THEN [err |-> TRUE, out |-> <<>>, src |-> <<>>]
         ELSE LET new == IF msgs[k].role = "user" THEN UserParts(r.parts, <<>>, <<>>)
                         ELSE IF msgs[k].role = "assistant" THEN <<AssistantMessage(r.parts)>>
                         ELSE <<>>
                  lead == Cardinality({i \in 1..Len(acc.src) : acc.src[i] = 0})
              IN ConvertFromNewestFirst(msgs, k + 1,
                     [acc EXCEPT !.out = SubSeq(@, 1, lead) \o new \o SubSeq(@, lead + 1, Len(@)),
                                 !.src = SubSeq(@, 1, lead) \o [i \in 1..Len(new) |-> k]
                                         \o SubSeq(@, lead + 1, Len(@))])

\* The loop over req.Messages from message k on; acc holds the list built
\* so far and the source position of each of its messages.
RECURSIVE ConvertFrom(_, _, _)
ConvertFrom(msgs, k, acc) ==
    IF k > Len(msgs) THEN acc
    ELSE LET r == parseAnthropicContent(msgs[k].content) IN
         IF ParseFailed(r) THEN [err |-> TRUE, out |-> <<>>, src |-> <<>>]
         ELSE LET new == IF msgs[k].role = "user" THEN UserParts(r.parts, <<>>, <<>>)
                         ELSE IF msgs[k].role = "assistant" THEN <<AssistantMessage(r.parts)>>
                         ELSE <<>>
              IN ConvertFrom(msgs, k + 1,
                             [acc EXCEPT !.out = @ \o new,
                                         !.src = @ \o [i \in 1..Len(new) |-> k]])

ConvertMessagesToOpenAI(req) ==
    LET sm == systemToOpenAI(req.system) IN
    ConvertFrom(req.messages, 1,
                [err |-> FALSE, out |-> sm, src |-> [i \in 1..Len(sm) |-> 0]])

\* ------------------------------------------------------------------- tools
AnthropicTool(name, description, schema) ==
    [name |-> name, description |-> description, input_schema |-> schema]
OpenAITool(type, name, description, parameters) ==
    [type |-> type,
     function |-> [name |-> name, description |-> description, parameters |-> parameters]]

\* Variant: the tools are collected by name, one tool per name.
mapToolsToOpenAIByName(tools) ==
    LET firsts == SelectSeq([i \in 1..Len(tools) |-> [t |-> tools[i], first |->
                                \A j \in 1..(i - 1) : tools[j].name # tools[i].name]],
                            LAMBDA e : e.first)
    IN [i \in 1..Len(firsts) |->
           OpenAITool("function", firsts[i].t.name, firsts[i].t.description,
                      firsts[i].t.input_schema)]

\* One tool of type "function" per tool definition, in order; the empty
\* list stands for nil as well.
mapToolsToOpenAI(tools) ==
    [i \in 1..Len(tools) |->
        OpenAITool("function", tools[i].name, tools[i].description, tools[i].input_schema)]

\* The sampling parameters, copied field by field.
Params(model, maxTokens, temperature, stop, stream) ==
    [model |-> model, max_tokens |-> maxTokens, temperature |-> temperature,
     stop |-> stop, stream |-> stream]

AnthropicMessageRequest(system, messages, tools, params) ==
    [system |-> system, messages |-> messages, tools |-> tools, params |-> params]
OpenAIChatRequest(messages, tools, params) ==
    [messages |-> messages, tools |-> tools, params |-> params]

\* OpenAIChatRequest{}
ZeroOpenAIRequest == OpenAIChatRequest(<<>>, <<>>, Params(<<>>, 0, NilPtr, <<>>, FALSE))

\* The call: the zero request and an error, or the mapped request.
AnthropicToOpenAI ==
    /\ a2oPc = "call"
    /\ LET r == ConvertMessagesToOpenAI(areq) IN
       IF r.err
       THEN a2oPc' = "err" /\ oreq' = ZeroOpenAIRequest /\ oreqSrc' = <<>>
       ELSE /\ a2oPc' = "ok"
            /\ oreq' = OpenAIChatRequest(r.out, mapToolsToOpenAI(areq.tools), areq.params)
            /\ oreqSrc' = r.src
    /\ UNCHANGED <<areq, o2aPc, areqOut, areqSrc, nonReqVars>>

\* ================================================================
\* OpenAIToAnthropicRequest (request mapper, B -> A)
\* ================================================================
AnthropicMsg(role, content) == [role |-> role, content |-> content]

\* json.Marshal of one block: a nil pointer is omitted, a pointer to a nil
\* raw message is written as null, a raw text is written compacted.
EncodeBlock(b) ==
    [b EXCEPT !.input = IF b.input.nil THEN RawAbsent
                        ELSE IF b.input.val.kind = "absent" THEN RawNull
                        ELSE RawJson(Strip(b.input.val.text))]

\* raw, _ := json.Marshal(parts): the array, or nothing when a raw input is
\* not valid JSON and Marshal fails.
MarshalParts(parts) ==
    IF \E i \in 1..Len(parts) :
          /\ ~parts[i].input.nil /\ parts[i].input.val.kind = "json"
          /\ ~JsonValid(parts[i].input.val.text)
    THEN RawAbsent
    ELSE RawArray([i \in 1..Len(parts) |-> EncodeBlock(parts[i])])

\* The text blocks of a content array: one per text part that is not blank.
ArrayTextBlocks(content) ==
    LET ts == ArrayTexts(content.parts) IN [i \in 1..Len(ts) |-> TextContent(ts[i])]

\* Variant: every system message replaces the system text.
SystemLast(systemStr, content) ==
    IF content.kind = "string" THEN content.text
    ELSE IF content.kind = "array" /\ ArrayTexts(content.parts) # <<>>
    THEN JoinBlankLine(ArrayTexts(content.parts))
    ELSE systemStr

\* systemStr after a system message with this content.
SystemFirst(systemStr, content) ==
    IF systemStr # <<>> THEN systemStr
    ELSE IF content.kind = "string" THEN content.text
    ELSE IF content.kind = "array" /\ ArrayTexts(content.parts) # <<>>
    THEN JoinBlankLine(ArrayTexts(content.parts))
    ELSE systemStr

\* The messages a user message yields.
UserMessages(m) ==
    IF m.content.kind = "string"
    THEN <<AnthropicMsg("user", MarshalParts(<<TextContent(m.content.text)>>))>>
    ELSE IF m.content.kind = "array" /\ Len(ArrayTextBlocks(m.content)) > 0
    THEN <<AnthropicMsg("user", MarshalParts(ArrayTextBlocks(m.content)))>>
    ELSE <<>>

\* inRaw of a tool call: nil when the arguments are empty, else their text.
ToolCallInput(arguments) ==
    IF arguments # <<>> THEN Ptr(RawJson(arguments)) ELSE Ptr(RawAbsent)

\* The messages an assistant message yields.
AssistantMessages(m) ==
    LET text == IF m.content.kind = "string" /\ ~IsBlank(m.content.text)
                THEN <<TextContent(m.content.text)>> ELSE <<>>
        arr == IF m.content.kind = "array" THEN ArrayTextBlocks(m.content) ELSE <<>>
        uses == [i \in 1..Len(m.tool_calls) |->
                    AnthropicContent("tool_use", <<>>, m.tool_calls[i].id, m.tool_calls[i].name,
                                     ToolCallInput(m.tool_calls[i].arguments), <<>>, NilContent)]
        parts == text \o arr \o uses
    IN IF Len(parts) > 0 THEN <<AnthropicMsg("assistant", MarshalParts(parts))>> ELSE <<>>

\* contentStr of a tool message: the string, "" for nil, else its JSON text.
ToolContentStr(content) ==
    IF content.kind = "string" THEN content.text
    ELSE IF content.kind = "nil" THEN <<>>
    ELSE MarshalValue(content)

\* The message a tool message yields.
ToolMessages(m) ==
    <<AnthropicMsg("user",
        MarshalParts(<<AnthropicContent("tool_result", <<>>, <<>>, <<>>, NilPtr, m.tool_call_id,
                                        StringContent(ToolContentStr(m.content)))>>))>>

\* The loop over oreq.Messages from message k on.
RECURSIVE RequestFrom(_, _, _)
RequestFrom(msgs, k, acc) ==
    IF k > Len(msgs) THEN acc
    ELSE LET m == msgs[k]
             new == IF m.role = "user" THEN UserMessages(m)
                    ELSE IF m.role = "assistant" THEN AssistantMessages(m)
                    ELSE IF m.role = "tool" THEN ToolMessages(m)
                    ELSE <<>>
         IN RequestFrom(msgs, k + 1,
                [systemStr |-> IF m.role = "system" THEN SystemFirst(acc.systemStr, m.content)
                               ELSE acc.systemStr,
                 msgs |-> acc.msgs \o new,
                 src |-> acc.src \o [i \in 1..Len(new) |-> k]])

\* strings.ToLower of a tool type.
ToLower(t) == IF t \in {"Function", "FUNCTION"} THEN "function" ELSE t

mapToolsToAnthropic(tools) ==
    LET fs == SelectSeq(tools, LAMBDA t : ToLower(t.type) = "function")
    IN [i \in 1..Len(fs) |->
           AnthropicTool(fs[i].function.name, fs[i].function.description,
                         fs[i].function.parameters)]

\* The call: it never fails.
OpenAIToAnthropicRequest ==
    /\ o2aPc = "call"
    /\ LET r == RequestFrom(oreq.messages, 1, [systemStr |-> <<>>, msgs |-> <<>>, src |-> <<>>])
       IN /\ areqOut' = AnthropicMessageRequest(
                            IF r.systemStr # <<>> THEN RawString(r.systemStr) ELSE RawAbsent,
                            r.msgs, mapToolsToAnthropic(oreq.tools), oreq.params)
          /\ areqSrc' = r.src
    /\ o2aPc' = "ok"
    /\ UNCHANGED <<a2oPc, areq, oreq, oreqSrc, nonReqVars>>

\* ================================================================
\* AnthropicToOpenAIResponse (non-streaming response, A -> B)
\* ================================================================
\* contentStr after one more text block.
AppendText(contentStr, str) ==
    IF contentStr = <<>> THEN str ELSE contentStr \o <<"\n\n">> \o str

RECURSIVE ResponseText(_, _)
ResponseText(content, contentStr) ==
    IF content = <<>> THEN contentStr
    ELSE ResponseText(Tail(content),
                      IF Head(content).type = "text"
                      THEN AppendText(contentStr, Head(content).text) ELSE contentStr)

\* args of a tool_use block: "{}" unless input is there and not nil.
ResponseArgs(c) ==
    IF "input" \in DOMAIN c /\ c.input.type # "null" THEN JsonMarshal(c.input)
    ELSE EmptyObjectText

ResponseToolCalls(content) ==
    LET uses == SelectSeq(content, LAMBDA c : c.type = "tool_use")
    IN [i \in 1..Len(uses) |-> ToolCall(uses[i].id, uses[i].name, ResponseArgs(uses[i]))]

\* Variant: every stop reason other than end_turn reports tool calls.
ResponseFinishUnlessEndTurn(stopReason) ==
    IF ~stopReason.nil /\ stopReason.val # "end_turn" THEN "tool_calls" ELSE "stop"

\* finish: "tool_calls" when the stop reason is tool_use, else "stop".
ResponseFinish(stopReason) ==
    IF ~stopReason.nil /\ stopReason.val = "tool_use" THEN "tool_calls" ELSE "stop"

AnthropicResponseToOpenAI(a) ==
    LET contentStr == ResponseText(a.content, <<>>) IN
    [object |-> "chat.completion",
     choices |-> <<[index |-> 0, finish_reason |-> ResponseFinish(a.stop_reason),
                    message |-> OpenAIMessage("assistant",
                                    IF contentStr # <<>> THEN StringContent(contentStr)
                                    ELSE NilContent,
                                    <<>>, ResponseToolCalls(a.content))]>>,
     usage |-> NilPtr]

\* The call, on the response OpenAIToAnthropic returned.
AnthropicToOpenAIResponse ==
    /\ respPc = "ok"
    /\ bresp' = AnthropicResponseToOpenAI(aresp)
    /\ respPc' = "back"
    /\ UNCHANGED <<oresp, aresp, nonRespVars>>

\* ================================================================
\* proxyToAnthropicStream (chat-completions streaming handler)
\* ================================================================
\* The lines written to w: "data: <chunk>" by the callback, "data: [DONE]"
\* and the body of an error response by the handler.
DataOut(chunk) == [line |-> "data", chunk |-> chunk]
DoneOut == [line |-> "done"]
ErrorOut == [line |-> "error"]

\* The response so far: one line per chunk handed to the callback, then
\* what the handler wrote itself.
Response == [i \in 1..Len(revOut) |-> DataOut(revOut[i])] \o wTail

\* Variant: the terminator is written only when the translator returned nil.
TerminatorOnSuccess(pc) == IF pc = "done" THEN <<DoneOut>> ELSE <<>>

\* What the handler writes once the translator has returned, whatever it
\* returned.
Terminator(pc) == <<DoneOut>>

\* The upstream call fails, answers with a status of 300 or more, or w is
\* no http.Flusher: an error response is written and the handler returns.
ProxyFails ==
    /\ hPc = "call"
    /\ hPc' = "failed"
    /\ wTail' = <<ErrorOut>>
    /\ UNCHANGED nonHandlerVars

\* The headers are set and the translator is called.
ProxyStreams ==
    /\ hPc = "call"
    /\ hPc' = "stream"
    /\ UNCHANGED <<wTail, nonHandlerVars>>

\* The translator has returned; its error is dropped.
ProxyReturns ==
    /\ hPc = "stream" /\ revPc \in {"done", "err"}
    /\ wTail' = Terminator(revPc)
    /\ hPc' = "done"
    /\ UNCHANGED nonHandlerVars

\* ------------------------------------------- inputs of the request mappers
SeqsUpTo(S, n) == UNION {[1..k -> S] : k \in 0..n}

TextA == <<"A">>
TextB == <<"B">>
TextS == <<"S">>
TextT == <<"T">>
TextResult == <<"RESULT">>
ArgsSpaced == <<"{", " ", "a", "}">>   \* { "a":1}

WireText(text) == AnthropicContent("text", text, <<>>, <<>>, RawAbsent, <<>>, NilContent)
WireToolUse(id, name, input) ==
    AnthropicContent("tool_use", <<>>, id, name, input, <<>>, NilContent)
WireToolResult(id, content) ==
    AnthropicContent("tool_result", <<>>, <<>>, <<>>, RawAbsent, id, content)

\* The blocks of user messages: texts, one of them blank, tool results with
\* a string and with an object as content, and a tool_use block.
UserBlocks ==
    {WireText(TextA), WireText(TextB), WireText(ArgsBlank),
     WireToolResult(<<"call", "1">>, StringContent(TextResult)),
     WireToolResult(<<"call", "2">>, ObjectContent(JsonObject({<<"a", <<"1">>>>}))),
     WireToolUse(<<"call", "3">>, <<"fn", "3">>, RawJson(ArgsObjA))}

\* The blocks of assistant messages: texts, one of them blank, and tool_use
\* blocks with an input, without one and with a null one.
AssistantBlocks ==
    {WireText(TextA), WireText(ArgsBlank),
     WireToolUse(<<"call", "1">>, <<"fn", "1">>, RawJson(ArgsSpaced)),
     WireToolUse(<<"call", "2">>, <<"fn", "2">>, RawAbsent),
     WireToolUse(<<"call", "3">>, <<"fn", "3">>, RawNull)}

SomeParams == Params(<<"m">>, 16, NilPtr, <<"END">>, TRUE)
SomeTools == <<AnthropicTool(<<"alpha">>, <<"d">>, JsonObject({<<"a", <<"1">>>>}))>>

\* Requests of one message with up to MaxParts blocks.
OneMessageRequests ==
    {AnthropicMessageRequest(sys, <<AnthropicMsg("user", c)>>, SomeTools, SomeParams) :
        sys \in {RawAbsent, RawString(TextS)},
        c \in {RawString(TextA)} \cup {RawArray(bs) : bs \in SeqsUpTo(UserBlocks, MaxParts)}}
    \cup
    {AnthropicMessageRequest(sys, <<AnthropicMsg("assistant", RawArray(bs))>>, SomeTools, SomeParams) :
        sys \in {RawAbsent, RawString(TextS)}, bs \in SeqsUpTo(AssistantBlocks, MaxParts)}

\* System contents: none, null, a string, a blank string, arrays of text
\* blocks, and a content that is neither.
SystemContents ==
    {RawAbsent, RawNull, RawString(TextS), RawString(ArgsBlank),
     RawArray(<<WireText(TextS), WireText(ArgsBlank), WireText(TextT)>>),
     RawArray(<<WireText(ArgsBlank)>>), RawOther}

\* Messages of every role, with contents that parse and contents that do not.
FewMessages ==
    {AnthropicMsg("user", RawString(TextA)),
     AnthropicMsg("user", RawNull),
     AnthropicMsg("user", RawOther),
     AnthropicMsg("assistant", RawArray(<<WireToolUse(<<"call", "1">>, <<"fn", "1">>, RawJson(ArgsObjA))>>)),
     AnthropicMsg("assistant", RawOther),
     AnthropicMsg("system", RawOther)}

\* Requests of up to MaxMsgs messages.
ManyMessageRequests ==
    {AnthropicMessageRequest(sys, ms, <<>>, SomeParams) :
        sys \in SystemContents, ms \in SeqsUpTo(FewMessages, MaxMsgs)}

AnthropicRequests == OneMessageRequests \cup ManyMessageRequests

\* Tool definitions: two of the same name, one without description, one
\* with a nil schema, one with an empty schema.
ToolDefs ==
    {AnthropicTool(<<"alpha">>, <<"d">>, JsonObject({<<"a", <<"1">>>>})),
     AnthropicTool(<<"alpha">>, <<>>, JsonNull),
     AnthropicTool(<<"beta">>, <<"d">>, EmptyObject),
     AnthropicTool(<<"beta">>, <<"e">>, JsonObject({<<"a", <<"1">>>>}))}

\* Requests of one user message with up to MaxTools tool definitions.
ToolRequests ==
    {AnthropicMessageRequest(sys, <<AnthropicMsg("user", RawString(TextA))>>, tools, SomeParams) :
        sys \in {RawAbsent, RawString(TextS)}, tools \in SeqsUpTo(ToolDefs, MaxTools)}

\* A responses: every stop reason, none included, with up to MaxToolCalls
\* text and tool_use blocks, with and without usage.
StopReasons ==
    {NilPtr, Ptr("tool_use"), Ptr("end_turn"), Ptr("max_tokens"), Ptr("TOOL_USE"), Ptr("")}

AnthropicResponses ==
    {[type |-> "message", role |-> "assistant", content |-> c, stop_reason |-> sr,
      stop_sequence |-> NilPtr, usage |-> u] :
        c \in SeqsUpTo({TextBlock(TextA),
                        ToolUseBlock(<<"call", "1">>, <<"fn", "1">>, EmptyObject),
                        ToolUseBlock(<<"call", "2">>, <<"fn", "2">>, JsonNull)}, MaxToolCalls),
        sr \in StopReasons,
        u \in {NilPtr, Ptr([input_tokens |-> 1, output_tokens |-> 2])}}

\* Messages of a B request: system, user, assistant and tool messages.
OpenAIMessages ==
    {OpenAIMessage("system", c, <<>>, <<>>) :
        c \in {StringContent(TextS), StringContent(TextT), StringContent(<<>>),
               StringContent(ArgsBlank),
               ArrayContent(<<Part("text", TextT), Part("text", ArgsBlank), Part("text", TextA)>>),
               ArrayContent(<<Part("text", ArgsBlank)>>), OtherContent}}
    \cup
    {OpenAIMessage("user", c, <<>>, <<>>) :
        c \in {StringContent(TextA),
               ArrayContent(<<Part("text", TextA), Part("image_url", <<>>), Part("text", TextB)>>),
               OtherContent, NilContent}}
    \cup
    {OpenAIMessage("assistant", StringContent(TextA), <<>>, <<>>),
     OpenAIMessage("assistant", NilContent, <<>>,
                   <<ToolCall(<<"call", "1">>, <<"fn", "1">>, ArgsObjA)>>),
     OpenAIMessage("assistant", StringContent(TextB), <<>>,
                   <<ToolCall(<<"call", "2">>, <<"fn", "2">>, <<>>)>>),
     OpenAIMessage("assistant", NilContent, <<>>,
                   <<ToolCall(<<"call", "3">>, <<"fn", "3">>, ArgsX)>>),
     OpenAIMessage("assistant", OtherContent, <<>>, <<>>)}
    \cup
    {OpenAIMessage("tool", c, <<"call", "1">>, <<>>) :
        c \in {StringContent(TextResult), NilContent}}

SomeOpenAITools ==
    <<OpenAITool("function", <<"alpha">>, <<"d">>, JsonObject({})),
      OpenAITool("retrieval", <<"beta">>, <<>>, JsonObject({}))>>

OpenAIRequests ==
    {OpenAIChatRequest(ms, SomeOpenAITools, SomeParams) : ms \in SeqsUpTo(OpenAIMessages, MaxMsgs)}

\* AnthropicMessageRequest{}
ZeroAnthropicRequest ==
    AnthropicMessageRequest(RawAbsent, <<>>, <<>>, Params(<<>>, 0, NilPtr, <<>>, FALSE))


\* ================================================================
\* Specifications
\* ================================================================
RespInitIdle ==
    /\ respPc = "idle" /\ oresp = [choices |-> <<>>, usage |-> NilPtr]
    /\ aresp = <<>> /\ bresp = <<>>

ReqInitIdle ==
    /\ a2oPc = "idle" /\ areq = ZeroAnthropicRequest
    /\ oreq = ZeroOpenAIRequest /\ oreqSrc = <<>>
    /\ o2aPc = "idle" /\ areqOut = ZeroAnthropicRequest /\ areqSrc = <<>>

HandlerInitIdle == hPc = "idle" /\ wTail = <<>>

InitRev ==
    /\ ctxDone = FALSE /\ RevInit /\ FwdInit /\ RespInitIdle /\ ReqInitIdle
    /\ HandlerInitIdle

NextRev == \E f \in RevFrames : RevFrame(f)

\* The reverse translator reading well-formed event/data pairs of content
\* blocks, never cancelled.
SpecRev == InitRev /\ [][NextRev]_vars

InitFwd ==
    /\ ctxDone = FALSE /\ FwdInit /\ RevInit /\ RespInitIdle /\ ReqInitIdle
    /\ HandlerInitIdle

NextFwd ==
    \/ FwdStart
    \/ \E l \in FwdLines : FwdRead(l)
    \/ FwdEOF

\* The forward translator on chunk lines, never cancelled.
SpecFwd == InitFwd /\ [][NextFwd]_vars

\* ctx is cancelled by the caller, at any time.
Cancel ==
    /\ ~ctxDone
    /\ ctxDone' = TRUE
    /\ UNCHANGED <<revVars, fwdVars, respVars, reqVars, handlerVars>>

NextFwdCtx ==
    \/ FwdStart
    \/ \E l \in FwdTextLines : FwdRead(l)
    \/ FwdEOF
    \/ Cancel
    \/ FwdCancelled

\* The forward translator on text and tool-call chunks and on lines that
\* carry nothing, with a context that may be cancelled.
SpecFwdCtx == InitFwd /\ [][NextFwdCtx]_vars

NextFwdKeys ==
    \/ FwdStart
    \/ \E l \in FwdKeyLines : FwdRead(l)
    \/ FwdEOF

\* The forward translator on tool-call deltas of FwdKeyLines, never cancelled.
SpecFwdKeys == InitFwd /\ [][NextFwdKeys]_vars

\* One translation after the other: the forward translator runs to its end
\* on lines of FwdKeyLines, then the reverse translator reads frames of
\* RevKeyFrames; MaxFrames bounds the lines and frames read by the two.
NextKeys ==
    \/ FwdStart
    \/ \E l \in FwdKeyLines : Len(fwdIn) + Len(revIn) < MaxFrames /\ FwdLine(l)
    \/ FwdEOF
    \/ \E f \in RevKeyFrames :
          /\ fwdPc = "done" /\ Len(fwdIn) + Len(revIn) < MaxFrames
          /\ RevEventLine(EventLine(f.ev), DataLine(f.payload))

SpecKeys == InitFwd /\ [][NextKeys]_vars

NextRevLines ==
    \/ \E f \in RevMessageFrames : RevReadFrame(f)
    \/ \E l \in RevPlainLines : RevReadPlain(l)
    \/ \E pr \in RevLonePairs : RevReadLone(pr)
    \/ RevEventThenEOF(EventLine("message_stop"))
    \/ RevEOF
    \/ Cancel
    \/ RevCancelled

\* The reverse translator on message-level pairs and on lines that do not
\* fit the event/data shape, with a context that may be cancelled.
SpecRevLines == InitRev /\ [][NextRevLines]_vars

NextRevFraming ==
    \/ \E f \in RevMessageFrames : RevReadFrame(f)
    \/ \E l \in RevPlainLines \cup {DataLine(NoPayload)} : RevReadPlain(l)
    \/ \E pr \in RevLonePairs : RevReadLone(pr)
    \/ RevEOF

\* The reverse translator on message-level pairs, on event lines without a
\* data line and on lines that are not event lines, a data line among them.
SpecRevFraming == InitRev /\ [][NextRevFraming]_vars

NextFwdFraming ==
    \/ FwdStart
    \/ \E l \in FwdFramingLines : FwdRead(l)
    \/ FwdEOF

\* The forward translator on lines of FwdFramingLines, never cancelled.
SpecFwdFraming == InitFwd /\ [][NextFwdFraming]_vars

NextRevNoOps ==
    \/ \E f \in RevNoOpFrames : RevReadFrame(f)
    \/ RevEOF

\* The reverse translator on the pairs of RevNoOpFrames, never cancelled.
SpecRevNoOps == InitRev /\ [][NextRevNoOps]_vars

InitProxy ==
    /\ ctxDone = FALSE /\ RevInit /\ FwdInit /\ RespInitIdle /\ ReqInitIdle
    /\ hPc = "call" /\ wTail = <<>>

NextProxy ==
    \/ ProxyFails
    \/ ProxyStreams
    \/ hPc = "stream" /\ \E f \in RevMessageFrames : RevReadFrame(f)
    \/ hPc = "stream" /\ RevEventThenEOF(EventLine("message_stop"))
    \/ hPc = "stream" /\ RevEOF
    \/ Cancel
    \/ hPc = "stream" /\ RevCancelled
    \/ ProxyReturns

\* proxyToAnthropicStream: the reverse translator called by the handler, on
\* message-level pairs, with a context that may be cancelled.
SpecProxy == InitProxy /\ [][NextProxy]_vars

\* One translation after the other under one context, which may be
\* cancelled before the first call or at any time: the forward translator on
\* lines of FwdStreamLines, then the reverse translator reading line by
\* line; MaxReads bounds the lines and pairs read by the two.
InitStreams ==
    /\ ctxDone \in BOOLEAN /\ RevInit /\ FwdInit /\ RespInitIdle /\ ReqInitIdle
    /\ HandlerInitIdle

StreamsBudget == Len(fwdIn) + Len(revIn) < MaxReads
FwdReturned == fwdPc \in {"done", "err"}

NextStreams ==
    \/ FwdStart
    \/ \E l \in FwdStreamLines : StreamsBudget /\ FwdLine(l)
    \/ FwdEOF
    \/ FwdCancelled
    \/ Cancel
    \/ FwdReturned /\ StreamsBudget /\ RevSkipLine(StrayLine)
    \/ \E ev \in RevEventNames : FwdReturned /\ StreamsBudget /\ RevReadEvent(EventLine(ev))
    \/ /\ FwdReturned /\ revPc = "data"
       /\ \E l2 \in RevDataFor(revIn[Len(revIn)][1].ev) : RevReadData(l2)
    \/ FwdReturned /\ RevDataEOF
    \/ FwdReturned /\ RevEOF
    \/ FwdReturned /\ RevCancelled

SpecStreams == InitStreams /\ [][NextStreams]_vars

\* The two translators each run to their return on a finite input: the steps
\* of the translators are taken as long as one is possible (the goroutine
\* runs, and a read of a finite input returns a line or fails), while the
\* caller may or may not cancel. MaxReads bounds the length of the input of
\* the two together; the input may end earlier at any line.
TerminatesLines ==
    {FwdPlainLine("done"), FwdPlainLine("stray"), ChunkLine(<<Choice(TextHe, <<>>)>>)}
TerminatesEvents == {"message_start", "content_block_delta", "message_stop"}

TranslatorStep ==
    \/ FwdStart
    \/ \E l \in TerminatesLines : StreamsBudget /\ FwdLine(l)
    \/ FwdEOF
    \/ FwdCancelled
    \/ FwdReturned /\ StreamsBudget /\ RevSkipLine(StrayLine)
    \/ \E ev \in TerminatesEvents : FwdReturned /\ StreamsBudget /\ RevReadEvent(EventLine(ev))
    \/ /\ FwdReturned /\ revPc = "data"
       /\ \E l2 \in RevDataFor(revIn[Len(revIn)][1].ev) : RevReadData(l2)
    \/ FwdReturned /\ RevDataEOF
    \/ FwdReturned /\ RevEOF
    \/ FwdReturned /\ RevCancelled

NextTerminates == TranslatorStep \/ Cancel

SpecTerminates ==
    InitStreams /\ [][NextTerminates]_vars /\ WF_vars(TranslatorStep)

\* Two translations at once, each on its own input, their steps interleaved
\* in any order and neither cancelled: the forward translator on lines of
\* FwdStreamLines, the reverse translator on frames of RevKeyFrames and
\* RevMessageFrames; MaxReads bounds the lines and frames read by the two.
NextConcurrent ==
    \/ FwdStart
    \/ \E l \in FwdStreamLines : StreamsBudget /\ FwdLine(l)
    \/ FwdEOF
    \/ \E f \in RevKeyFrames \cup RevMessageFrames :
          StreamsBudget /\ RevEventLine(EventLine(f.ev), DataLine(f.payload))
    \/ StreamsBudget /\ RevSkipLine(StrayLine)
    \/ RevEOF

SpecConcurrent == InitFwd /\ [][NextConcurrent]_vars

InitResp ==
    /\ ctxDone = FALSE /\ RevInit /\ FwdInit /\ ReqInitIdle /\ HandlerInitIdle
    /\ respPc = "call" /\ oresp \in RespInputs /\ aresp = <<>> /\ bresp = <<>>

NextResp == OpenAIToAnthropic

\* OpenAIToAnthropic applied to each response of RespInputs.
SpecResp == InitResp /\ [][NextResp]_vars

NextRespBack == OpenAIToAnthropic \/ AnthropicToOpenAIResponse

\* OpenAIToAnthropic applied to each response of RespInputs, and
\* AnthropicToOpenAIResponse applied to its result.
SpecRespBack == InitResp /\ [][NextRespBack]_vars

InitBack ==
    /\ ctxDone = FALSE /\ RevInit /\ FwdInit /\ ReqInitIdle /\ HandlerInitIdle
    /\ respPc = "ok" /\ oresp = [choices |-> <<>>, usage |-> NilPtr]
    /\ aresp \in AnthropicResponses /\ bresp = <<>>

NextBack == AnthropicToOpenAIResponse

\* AnthropicToOpenAIResponse applied to each response of AnthropicResponses.
SpecBack == InitBack /\ [][NextBack]_vars

InitAToB ==
    /\ ctxDone = FALSE /\ RevInit /\ FwdInit /\ RespInitIdle /\ HandlerInitIdle
    /\ a2oPc = "call" /\ areq \in AnthropicRequests
    /\ oreq = ZeroOpenAIRequest /\ oreqSrc = <<>>
    /\ o2aPc = "call" /\ areqOut = ZeroAnthropicRequest /\ areqSrc = <<>>

NextAToB ==
    \/ AnthropicToOpenAI
    \/ a2oPc = "ok" /\ OpenAIToAnthropicRequest

\* AnthropicToOpenAI applied to each request of AnthropicRequests, and
\* OpenAIToAnthropicRequest applied to the request it returned.
SpecAToB == InitAToB /\ [][NextAToB]_vars

InitTools ==
    /\ ctxDone = FALSE /\ RevInit /\ FwdInit /\ RespInitIdle /\ HandlerInitIdle
    /\ a2oPc = "call" /\ areq \in ToolRequests
    /\ oreq = ZeroOpenAIRequest /\ oreqSrc = <<>>
    /\ o2aPc = "call" /\ areqOut = ZeroAnthropicRequest /\ areqSrc = <<>>

\* AnthropicToOpenAI applied to each request of ToolRequests, and
\* OpenAIToAnthropicRequest applied to the request it returned.
SpecTools == InitTools /\ [][NextAToB]_vars

InitBToA ==
    /\ ctxDone = FALSE /\ RevInit /\ FwdInit /\ RespInitIdle /\ HandlerInitIdle
    /\ a2oPc = "idle" /\ areq = ZeroAnthropicRequest
    /\ oreq \in OpenAIRequests /\ oreqSrc = <<>>
    /\ o2aPc = "call" /\ areqOut = ZeroAnthropicRequest /\ areqSrc = <<>>

NextBToA == OpenAIToAnthropicRequest

\* OpenAIToAnthropicRequest applied to each request of OpenAIRequests.
SpecBToA == InitBToA /\ [][NextBToA]_vars

\* ================================================================
\* Properties of ConvertAnthropicStreamToOpenAI
\* ================================================================
\* ----------------------------------- reading the reverse translator's logs
\* Iteration k read an event line and its data line, and dispatched on them.
Dispatched(k) == Len(revIn[k]) = 2 /\ revIn[k][2].kind = "data"
EvOf(k) == revIn[k][1].ev
PayOf(k) == revIn[k][2].payload

BlockTypeAt(k) ==
    IF "content_block" \in DOMAIN PayOf(k) THEN PayOf(k).content_block.type ELSE <<>>
AnyStartAt(k) ==
    Dispatched(k) /\ EvOf(k) = "content_block_start" /\ "json" \notin DOMAIN PayOf(k)
ToolStartAt(k) == AnyStartAt(k) /\ BlockTypeAt(k) = <<"tool_use">>
JsonDeltaAt(k) ==
    /\ Dispatched(k) /\ EvOf(k) = "content_block_delta"
    /\ "delta" \in DOMAIN PayOf(k) /\ PayOf(k).delta.type = <<"input_json_delta">>

IsToolChunk(ch) == "tool_calls" \in DOMAIN ch.delta
IsNameChunk(ch) == IsToolChunk(ch) /\ "name" \in DOMAIN ch.delta.tool_calls[1].function
IsArgsChunk(ch) == IsToolChunk(ch) /\ "arguments" \in DOMAIN ch.delta.tool_calls[1].function
ToolIdxOf(ch) == ch.delta.tool_calls[1].index
ArgsOf(ch) == ch.delta.tool_calls[1].function.arguments

\* The content-block index of the event that produced chunk i.
SrcBlock(i) == PayOf(revSrc[i]).index

ToolChunks == {i \in 1..Len(revOut) : IsToolChunk(revOut[i])}
NameChunks == {i \in 1..Len(revOut) : IsNameChunk(revOut[i])}
ArgsChunks == {i \in 1..Len(revOut) : IsArgsChunk(revOut[i])}

\* Each content-block index is started at most once in the input read so far.
NoRestart ==
    LET starts == {k \in 1..Len(revIn) : AnyStartAt(k)}
    IN \A k, l \in starts : PayOf(k).index = PayOf(l).index => k = l

\* C1: when each content-block index is started at most once, all the chunks
\* emitted for one tool invocation, the name chunk of its content_block_start
\* and the argument chunks of its input_json_delta fragments, carry the same
\* tool-call index.
C1_SameIndexPerInvocation ==
    NoRestart =>
        LET chunks == ToolChunks
        IN \A i, j \in chunks :
              SrcBlock(i) = SrcBlock(j) => ToolIdxOf(revOut[i]) = ToolIdxOf(revOut[j])

\* Two invocations are interleaved, one of them with its name chunk and two
\* argument chunks, and no block index is started twice.
C1_Witness ==
    /\ NoRestart
    /\ \E n \in NameChunks : \E a1, a2 \in ArgsChunks : \E o \in ArgsChunks :
         /\ a1 # a2 /\ n < a1 /\ a1 < o /\ o < a2
         /\ SrcBlock(n) = SrcBlock(a1) /\ SrcBlock(a1) = SrcBlock(a2)
         /\ SrcBlock(o) # SrcBlock(n)

\* C2 (as claimed): once a content-block index is mapped to a target call
\* index, no later step of the translation changes that mapping.
C2_MappingNeverChanges ==
    [][\A b \in DOMAIN contentIdxToToolIdx :
          /\ b \in DOMAIN contentIdxToToolIdx'
          /\ contentIdxToToolIdx'[b] = contentIdxToToolIdx[b]]_vars

\* The iterations that dispatched a tool_use content_block_start.
ToolStarts == {k \in 1..Len(revIn) : ToolStartAt(k)}

\* C3: the target call indices are handed out as 0, 1, 2, ... without gaps in
\* the order of the tool_use content_block_start events: every such event
\* emits exactly one name chunk, whose index is the number of tool_use starts
\* before it, whatever the block's own index and whatever text blocks or
\* other events come before or between them.
C3_SequentialIndices ==
    LET starts == ToolStarts
        names == NameChunks
    IN /\ \A i \in names :
            /\ revSrc[i] \in starts
            /\ ToolIdxOf(revOut[i]) = Cardinality({k \in starts : k < revSrc[i]})
       /\ \A k \in starts : Cardinality({i \in names : revSrc[i] = k}) = 1
       /\ nextToolIdx = Cardinality(starts)

\* A text block 0 is started and has a delta, then block 2 and then block 1
\* are started as tool invocations: they get the indices 0 and 1.
C3_Witness ==
    \E i, j \in NameChunks :
        /\ i < j
        /\ SrcBlock(i) = 2 /\ SrcBlock(j) = 1
        /\ ToolIdxOf(revOut[i]) = 0 /\ ToolIdxOf(revOut[j]) = 1
        /\ \E t \in 1..(i - 1) : "content" \in DOMAIN revOut[t].delta
        /\ \E k \in 1..(revSrc[i] - 1) : AnyStartAt(k) /\ BlockTypeAt(k) = <<"text">>

\* The argument texts of the chunks emitted with target index t, in order.
EmittedArgs(t) ==
    LET sel == SelectSeq(revOut, LAMBDA ch : IsArgsChunk(ch) /\ ToolIdxOf(ch) = t)
    IN Flatten([i \in 1..Len(sel) |-> ArgsOf(sel[i])])

\* The fragment a json delta carries: partial_json, or the field delta when
\* partial_json is empty.
FragmentAt(k) ==
    LET d == PayOf(k).delta IN
    IF d.partial_json = <<>> /\ "delta" \in DOMAIN d THEN d.delta ELSE d.partial_json

\* The fragments received for content-block index b, in order.
RECURSIVE ReceivedFrom(_, _)
ReceivedFrom(k, b) ==
    IF k > Len(revIn) THEN <<>>
    ELSE (IF JsonDeltaAt(k) /\ PayOf(k).index = b THEN FragmentAt(k) ELSE <<>>)
         \o ReceivedFrom(k + 1, b)

LastStartBefore(starts, k, b) ==
    LET S == {q \in starts : q < k /\ PayOf(q).index = b}
    IN IF S = {} THEN 0 ELSE CHOOSE q \in S : \A r \in S : r <= q

\* The argument chunks expected from iteration k on, starts being the
\* iterations that dispatched a tool_use start: one chunk per fragment whose
\* block index has been started as a tool invocation, carrying the index
\* handed out at the last such start.
RECURSIVE ExpectedArgsChunks(_, _)
ExpectedArgsChunks(starts, k) ==
    IF k > Len(revIn) THEN <<>>
    ELSE LET q == IF JsonDeltaAt(k) THEN LastStartBefore(starts, k, PayOf(k).index) ELSE 0
         IN (IF q = 0 THEN <<>>
             ELSE <<[index |-> Cardinality({r \in starts : r < q}),
                     arguments |-> FragmentAt(k)]>>)
            \o ExpectedArgsChunks(starts, k + 1)

ActualArgsChunks ==
    LET sel == SelectSeq(revOut, IsArgsChunk)
    IN [i \in 1..Len(sel) |-> [index |-> ToolIdxOf(sel[i]), arguments |-> ArgsOf(sel[i])]]

RoleChunks == {i \in 1..Len(revOut) : "role" \in DOMAIN revOut[i].delta}
MessageStarts == {k \in 1..Len(revIn) : Dispatched(k) /\ EvOf(k) = "message_start"}

\* C23: at most one chunk announces the role, however many message_start
\* events are read; it is emitted at the first of them, its delta holds the
\* role "assistant" and nothing else and it has no finish reason; no chunk
\* announces the role when no message_start was read.
C23_OneRoleChunk ==
    /\ Cardinality(RoleChunks) <= 1
    /\ (RoleChunks # {}) = (MessageStarts # {})
    /\ \A i \in RoleChunks :
          /\ \A k \in MessageStarts : revSrc[i] <= k
          /\ revSrc[i] \in MessageStarts
          /\ revOut[i] = [delta |-> [role |-> "assistant"]]

\* Two message_start events were read, a text delta between them: one role
\* chunk, emitted first.
C23_Witness ==
    /\ Cardinality(MessageStarts) >= 2
    /\ Len(revOut) >= 2
    /\ RoleChunks = {1}
    /\ "content" \in DOMAIN revOut[2].delta
    /\ \E k \in MessageStarts : k > revSrc[2]

\* The pair ev, p carries nothing to forward, m being the map of block
\* indices when it is read.
NothingToForward(ev, p, m) ==
    \/ ev \in {"message_delta", "content_block_stop"}
    \/ ev \notin {"message_start", "content_block_start", "content_block_delta",
                  "message_delta", "message_stop"}
    \/ /\ ev = "content_block_start"
       /\ JsonOk(p) /\ HasBlock(p) /\ StrField(p.content_block, "type") # <<"tool_use">>
    \/ /\ ev = "content_block_delta"
       /\ JsonOk(p) /\ HasDelta(p) /\ StrField(p.delta, "type") = <<"input_json_delta">>
       /\ IndexOf(p) \notin DOMAIN m

\* C36: a message_delta, a content_block_stop, the start of a block that is
\* not a tool invocation, an event of unknown name and an argument fragment
\* for a block index without recorded mapping each emit no chunk and leave
\* the role flag, the index counter, the map and the argument buffers as
\* they were.
C36_NoOpEvents ==
    [][(/\ revIn' # revIn
        /\ Len(revIn'[Len(revIn')]) = 2
        /\ revIn'[Len(revIn')][2].kind = "data"
        /\ NothingToForward(revIn'[Len(revIn')][1].ev, revIn'[Len(revIn')][2].payload,
                            contentIdxToToolIdx))
          => UNCHANGED <<revOut, roleSent, nextToolIdx, contentIdxToToolIdx,
                         toolArgsByToolIdx>>]_vars

\* After a tool invocation of block 1 and one fragment of it, a
\* message_delta, a content_block_stop and a fragment for block 0 were
\* read: two chunks are out and the state is that of the first two pairs.
C36_Witness ==
    /\ Len(revIn) = 5
    /\ revIn[1][1].ev = "content_block_start" /\ revIn[2][1].ev = "content_block_delta"
    /\ revIn[3][1].ev = "message_delta" /\ revIn[4][1].ev = "content_block_stop"
    /\ revIn[5] = <<EventLine("content_block_delta"), DataLine(JsonDelta(0, PieceA))>>
    /\ Len(revOut) = 2
    /\ nextToolIdx = 1 /\ DOMAIN contentIdxToToolIdx = {1}
    /\ toolArgsByToolIdx = (0 :> PieceA)

\* The lines read, one after the other, and the position in them of the
\* first line of loop iteration k.
LinesRead == Flatten(revIn)
FirstLineOf(k) == Len(Flatten(SubSeq(revIn, 1, k - 1))) + 1

\* An event line of a recognised event directly followed by a data line.
WellFormedPairAt(n) ==
    /\ LinesRead[n].kind = "event"
    /\ LinesRead[n].ev \in {"message_start", "content_block_start", "content_block_delta",
                            "message_delta", "message_stop"}
    /\ LinesRead[n + 1].kind = "data"

\* C34 (as claimed): every well-formed pair of the input is translated,
\* that is read as the event line and the data line of one loop iteration,
\* whatever lines were skipped before it.
C34_NoPairLost ==
    \A n \in 1..(Len(LinesRead) - 1) :
        WellFormedPairAt(n) =>
            \E k \in 1..Len(revIn) : FirstLineOf(k) = n /\ Dispatched(k)

\* The positions in the output of the chunks that carry a finish_reason.
FinishChunks == {i \in 1..Len(revOut) : "finish_reason" \in DOMAIN revOut[i]}

\* C33 (as claimed): at most one chunk carries a finish_reason; it is the
\* chunk of a message_stop, with the reason "stop" and an empty delta, and
\* no chunk comes after it, whatever the input holds after message_stop.
C33_FinishChunkIsLast ==
    /\ Cardinality(FinishChunks) <= 1
    /\ \A i \in FinishChunks :
          /\ revOut[i] = send(EmptyDelta, "stop")
          /\ revIn[revSrc[i]][1] = EventLine("message_stop")
          /\ i = Len(revOut)

\* ================================================================
\* Properties of ConvertOpenAIStreamToAnthropic
\* ================================================================
IsToolStart(e) == e.event = "content_block_start" /\ e.content_block.type = "tool_use"
ToolStartsOut == {i \in 1..Len(fwdOut) : IsToolStart(fwdOut[i])}

\* A line that carries no chunk with a choice.
NoChunkLine(l) ==
    \/ l.kind \in {"blank", "stray", "badjson"}
    \/ l.kind = "chunk" /\ l.choices = <<>>

\* C35: in the forward translator a line that is blank, lacks the prefix, is
\* not JSON or has no choices emits nothing and leaves the text state and
\* the tool-call buffers as they were; the terminator line ends the loop,
\* and after it no line is read and nothing more is emitted.
C35_ForwardFraming ==
    [][/\ (fwdIn' # fwdIn /\ NoChunkLine(fwdIn'[Len(fwdIn')])) =>
             UNCHANGED <<fwdOut, sentTextStart, totalText, toolByIdx, fwdPc>>
       /\ (fwdIn' # fwdIn /\ fwdIn'[Len(fwdIn')].kind = "done") => fwdPc' = "done"
       /\ fwdPc = "done" => UNCHANGED <<fwdIn, fwdOut, sentTextStart, totalText, toolByIdx>>]_vars

\* A text delta, then a line without prefix, a line that is not JSON and a
\* chunk without choices, then the terminator: the output is that of the
\* text delta alone.
C35_Witness ==
    /\ fwdPc = "done"
    /\ fwdIn = <<ChunkLine(<<Choice(TextHe, <<>>)>>), FwdPlainLine("stray"),
                 FwdPlainLine("badjson"), ChunkLine(<<>>), FwdPlainLine("done")>>
    /\ fwdOut = <<MessageStart, TextBlockStart, TextBlockDelta(TextHe), BlockStop(0),
                  MessageDelta(0), MessageStop>>

\* The tool-call deltas the translator took from line l: those of the first choice.
CallsOfLine(l) ==
    IF l.kind = "chunk" /\ l.choices # <<>> THEN l.choices[1].tool_calls ELSE <<>>

\* Every tool-call delta read so far, in arrival order.
RECURSIVE CallsFrom(_)
CallsFrom(k) == IF k > Len(fwdIn) THEN <<>> ELSE CallsOfLine(fwdIn[k]) \o CallsFrom(k + 1)

AllCalls == CallsFrom(1)
SeenCalls == {AllCalls[i].index : i \in 1..Len(AllCalls)}

\* The argument fragments received for call index c, concatenated in arrival order.
AllArgs(c) ==
    LET sel == SelectSeq(AllCalls, LAMBDA tc : tc.index = c)
    IN Flatten([i \in 1..Len(sel) |-> sel[i].arguments])

\* The position in AllCalls of the first delta of call index c.
FirstSeen(c) == CHOOSE i \in 1..Len(AllCalls) :
    AllCalls[i].index = c /\ \A j \in 1..(i - 1) : AllCalls[j].index # c

\* The input expected for the argument text a.
ExpectedStreamInput(a) ==
    IF a = <<>> \/ IsBlank(a) \/ ~JsonValid(a) THEN EmptyObject ELSE JsonParse(a)

\* C5: no tool_use content_block_start is emitted while input is being
\* consumed; tool blocks are emitted only once the input has ended, each as a
\* content_block_start carrying the input accumulated over the whole stream,
\* immediately followed by the content_block_stop of the same index, and no
\* text delta follows any of them.
C5_ToolBlocksAtomicAtEnd ==
    /\ fwdPc # "done" => ToolStartsOut = {}
    /\ \A i \in ToolStartsOut :
         /\ i < Len(fwdOut)
         /\ fwdOut[i + 1] = BlockStop(fwdOut[i].index)
         /\ fwdOut[i].content_block.input = ExpectedStreamInput(AllArgs(fwdSrc[i]))
         /\ \A j \in (i + 1)..Len(fwdOut) : fwdOut[j].event # "content_block_delta"

\* The stream ended after the deltas of two tool calls, one of them with the
\* two argument fragments {"a":1 and ,"b":2}, and a text delta after a
\* tool-call delta.
C5_Witness ==
    /\ fwdPc = "done"
    /\ Cardinality(ToolStartsOut) = 2
    /\ \E k \in 1..Len(fwdIn) :
         /\ CallsOfLine(fwdIn[k]) # <<>>
         /\ \E j \in (k + 1)..Len(fwdIn) : fwdIn[j] = ChunkLine(<<Choice(TextHe, <<>>)>>)
    /\ \E c \in SeenCalls : AllArgs(c) = PieceA \o PieceB

\* C6: at the end of the input the buffered calls are emitted in ascending
\* order of their source call index, whatever their order of arrival, and
\* every source call index seen yields exactly one tool_use block.
C6_AscendingSourceIndex ==
    fwdPc = "done" =>
        /\ \A i, j \in ToolStartsOut : i < j => fwdSrc[i] < fwdSrc[j]
        /\ {fwdSrc[i] : i \in ToolStartsOut} = SeenCalls
        /\ Cardinality(ToolStartsOut) = Cardinality(SeenCalls)

\* Call index 1 arrived before call index 0, and both were emitted.
C6_Witness ==
    /\ fwdPc = "done"
    /\ {0, 1} \subseteq SeenCalls
    /\ FirstSeen(1) < FirstSeen(0)
    /\ \E i, j \in ToolStartsOut : i < j /\ fwdSrc[i] = 0 /\ fwdSrc[j] = 1

\* The content-block indices of the emitted tool blocks, in emission order.
ToolBlockIndices ==
    LET sel == SelectSeq(fwdOut, IsToolStart) IN [i \in 1..Len(sel) |-> sel[i].index]

\* C7 (as claimed): the indices of the emitted tool blocks are consecutive and
\* start at 1 when text was sent and at 0 when no text was sent.
C7_IndicesFollowText ==
    fwdPc = "done" =>
        \A i \in 1..Len(ToolBlockIndices) :
            ToolBlockIndices[i] = (IF sentTextStart THEN 1 ELSE 0) + (i - 1)

\* C8: a tool block carries the empty object when the argument text
\* accumulated for its call is empty, blank or not valid JSON, and the parsed
\* value when it is valid JSON; in both cases the translation completes with
\* message_delta and message_stop.
C8_InvalidArgsBecomeEmptyObject ==
    fwdPc = "done" =>
        /\ \A i \in ToolStartsOut :
             LET a == AllArgs(fwdSrc[i])
                 input == fwdOut[i].content_block.input
             IN /\ (a = <<>> \/ IsBlank(a) \/ ~JsonValid(a)) => input = EmptyObject
                /\ (JsonValid(a)) => input = JsonParse(a)
                /\ a = ArgsX => input = JsonObject({})
                /\ a = PieceA \o PieceB =>
                     input = JsonObject({<<"a", <<"1">>>>, <<"b", <<"2">>>>})
        /\ Len(fwdOut) >= 2
        /\ fwdOut[Len(fwdOut) - 1].event = "message_delta"
        /\ fwdOut[Len(fwdOut)] = MessageStop

\* One call whose whole argument text is NOT_JSON and one whose fragments
\* {"a":1 and ,"b":2} join to valid JSON, both emitted.
C8_Witness ==
    /\ fwdPc = "done"
    /\ \E i, j \in ToolStartsOut :
         /\ AllArgs(fwdSrc[i]) = ArgsX
         /\ fwdOut[i].content_block.input = EmptyObject
         /\ AllArgs(fwdSrc[j]) = PieceA \o PieceB
         /\ fwdOut[j].content_block.input = JsonObject({<<"a", <<"1">>>>, <<"b", <<"2">>>>})

\* ------------------------------------------------ accumulation per call index
\* The last non-empty id (or name) received for call index c, empty when
\* none was received.
LastNonEmpty(c, field) ==
    LET sel == SelectSeq(AllCalls, LAMBDA tc : tc.index = c /\ tc[field] # <<>>)
    IN IF sel = <<>> THEN <<>> ELSE sel[Len(sel)][field]

\* C21: for each source call index the emitted tool_use block carries the
\* input parsed from all the argument fragments received for that index,
\* concatenated in arrival order, and the last non-empty id and the last
\* non-empty name received for it; an empty id or name never erases one.
C21_AccumulatedPerIndex ==
    fwdPc = "done" =>
        /\ {fwdSrc[i] : i \in ToolStartsOut} = SeenCalls
        /\ \A i \in ToolStartsOut :
             LET c == fwdSrc[i]
                 cb == fwdOut[i].content_block
             IN /\ cb.input = ExpectedStreamInput(AllArgs(c))
                /\ cb.id = LastNonEmpty(c, "id")
                /\ cb.name = LastNonEmpty(c, "name")

\* Call index 0 received id call1 with name fn1, then id call2 with {"a":1,
\* then an empty id with name fn2 and ,"b":2}: its block has id call2, name
\* fn2 and both members.
C21_Witness ==
    /\ fwdPc = "done"
    /\ Len(fwdIn) >= 3
    /\ SubSeq(fwdIn, 1, 3) =
         <<ChunkLine(<<Choice(<<>>, <<ToolCallDelta(0, <<"call", "1">>, <<"fn", "1">>, <<>>)>>)>>),
           ChunkLine(<<Choice(<<>>, <<ToolCallDelta(0, <<"call", "2">>, <<>>, PieceA)>>)>>),
           ChunkLine(<<Choice(<<>>, <<ToolCallDelta(0, <<>>, <<"fn", "2">>, PieceB)>>)>>)>>
    /\ \E i \in ToolStartsOut :
         fwdOut[i].content_block =
            [type |-> "tool_use", id |-> <<"call", "2">>, name |-> <<"fn", "2">>,
             input |-> JsonObject({<<"a", <<"1">>>>, <<"b", <<"2">>>>})]

\* ---------------------------------------------------- message life cycle
EventsNamed(name) == {i \in 1..Len(fwdOut) : fwdOut[i].event = name}

BlockEvents ==
    {i \in 1..Len(fwdOut) :
        fwdOut[i].event \in {"content_block_start", "content_block_delta", "content_block_stop"}}

\* C37 (as claimed): on a run that is not cancelled the content blocks are
\* introduced with the indices 0, 1, 2, ... in this order, without gap, and
\* every content_block_start is followed by exactly one content_block_stop
\* of its index, before message_delta.
C37_BlockStructure ==
    fwdPc = "done" =>
        LET starts == SortAsc(EventsNamed("content_block_start")) IN
        /\ \A j \in 1..Len(starts) : fwdOut[starts[j]].index = j - 1
        /\ \A s \in EventsNamed("content_block_start") :
              LET stops == {t \in EventsNamed("content_block_stop") :
                               fwdOut[t].index = fwdOut[s].index}
              IN /\ Cardinality(stops) = 1
                 /\ \A t \in stops : s < t /\ \A d \in EventsNamed("message_delta") : t < d

\* C19: a run that is not cancelled emits first exactly one message_start,
\* last exactly one message_delta (stop_reason end_turn, input_tokens 0)
\* followed at once by exactly one message_stop, and every content_block
\* event strictly between message_start and message_delta.
C19_MessageLifecycle ==
    fwdPc = "done" =>
        LET n == Len(fwdOut) IN
        /\ n >= 3
        /\ EventsNamed("message_start") = {1}
        /\ EventsNamed("message_delta") = {n - 1}
        /\ fwdOut[n - 1].delta.stop_reason = "end_turn"
        /\ fwdOut[n - 1].usage.input_tokens = 0
        /\ EventsNamed("message_stop") = {n}
        /\ \A i \in BlockEvents : 1 < i /\ i < n - 1

\* A run that was not cancelled ended after a text block and a tool block.
C19_Witness ==
    /\ fwdPc = "done"
    /\ \E i \in BlockEvents : fwdOut[i] = BlockStop(0)
    /\ \E i \in BlockEvents : IsToolStart(fwdOut[i])

\* ------------------------------------------------------- the text block
\* The non-empty text deltas of the first choice, in the order read.
SourceTextLines ==
    SelectSeq(fwdIn, LAMBDA l : /\ l.kind = "chunk" /\ l.choices # <<>>
                                /\ l.choices[1].content # <<>>)
SourceTexts == [i \in 1..Len(SourceTextLines) |-> SourceTextLines[i].choices[1].content]

TextStartsOut ==
    {i \in 1..Len(fwdOut) :
        /\ fwdOut[i].event = "content_block_start"
        /\ fwdOut[i].content_block.type = "text"}

TextDeltasOut == SortAsc(EventsNamed("content_block_delta"))

TextStopsOut ==
    {i \in 1..Len(fwdOut) : fwdOut[i].event = "content_block_stop" /\ fwdOut[i].index = 0}

\* C20: the text block is started once, with index 0, right before the
\* first content_block_delta; the content_block_delta events are, in source
\* order, one per non-empty text delta of the first choice, with index 0 and
\* that text, whatever tool-call deltas come in between; the stop of block 0
\* is emitted at the end of the input, if and only if some text was sent.
C20_TextBlock ==
    /\ IF Len(TextDeltasOut) = 0 THEN TextStartsOut = {}
       ELSE /\ TextStartsOut = {TextDeltasOut[1] - 1}
            /\ fwdOut[TextDeltasOut[1] - 1].index = 0
    /\ Len(TextDeltasOut) = Len(SourceTexts)
    /\ \A j \in 1..Len(TextDeltasOut) :
          /\ fwdOut[TextDeltasOut[j]].index = 0
          /\ fwdOut[TextDeltasOut[j]].delta = [type |-> "text_delta", text |-> SourceTexts[j]]
    /\ fwdPc # "done" => TextStopsOut = {}
    /\ fwdPc = "done" =>
          IF Len(SourceTexts) = 0 THEN TextStopsOut = {}
          ELSE TextStopsOut = {TextDeltasOut[Len(TextDeltasOut)] + 1}

\* Two text deltas with a tool-call delta between them were read before the
\* terminator: the block was started once, stopped once, and carries both
\* texts in order.
C20_Witness ==
    /\ fwdPc = "done"
    /\ fwdIn = <<ChunkLine(<<Choice(TextHe, <<>>)>>),
                 ChunkLine(<<Choice(<<>>, <<ArgsOnlyDelta(0, PieceA)>>)>>),
                 ChunkLine(<<Choice(TextLlo, <<HeadDelta(0)>>)>>),
                 FwdPlainLine("done")>>
    /\ SubSeq(fwdOut, 2, 5) = <<TextBlockStart, TextBlockDelta(TextHe), TextBlockDelta(TextLlo),
                                BlockStop(0)>>

\* ================================================================
\* Properties of OpenAIToAnthropic
\* ================================================================
FirstToolCalls == oresp.choices[1].message.tool_calls
ToolUseBlocks == SelectSeq(aresp.content, LAMBDA blk : blk.type = "tool_use")

\* C9: the call succeeds whenever the response has a choice, and every tool
\* call of the first choice whose arguments are not valid JSON is mapped to
\* a tool_use block whose input is {"_": <raw arguments>}, which is not the
\* empty object the streaming translator substitutes.
C9_InvalidArgsWrapped ==
    (respPc # "call" /\ Len(oresp.choices) > 0) =>
        /\ respPc = "ok"
        /\ Len(ToolUseBlocks) = Len(FirstToolCalls)
        /\ \A i \in 1..Len(FirstToolCalls) :
             LET args == FirstToolCalls[i].arguments IN
             /\ ToolUseBlocks[i].id = FirstToolCalls[i].id
             /\ ~JsonValid(args) =>
                  /\ ToolUseBlocks[i].input = [type |-> "object", members |-> {<<"_", args>>}]
                  /\ ToolUseBlocks[i].input # ExpectedStreamInput(args)
             /\ args = ArgsX =>
                  ToolUseBlocks[i].input = [type |-> "object", members |-> {<<"_", <<"x">>>>}]

\* A response was mapped whose first choice has a call with the arguments
\* not_json and a call with valid arguments.
C9_Witness ==
    /\ respPc = "ok"
    /\ \E i, j \in 1..Len(FirstToolCalls) :
         /\ FirstToolCalls[i].arguments = ArgsX
         /\ ToolUseBlocks[i].input = JsonObject({<<"_", ArgsX>>})
         /\ FirstToolCalls[j].arguments = ArgsObjA
         /\ ToolUseBlocks[j].input = JsonObject({<<"a", <<"1">>>>})

\* C10 (as claimed): whenever the first choice has a tool call, the result's
\* stop_reason is tool_use, for every finish_reason including the empty one.
C10_ToolUseStopReason ==
    (respPc = "ok" /\ Len(FirstToolCalls) > 0) => aresp.stop_reason = Ptr("tool_use")

\* C39: OpenAIToAnthropic fails, returning no response, exactly when the B
\* response has no choices; otherwise its result is the one it returns for
\* the response reduced to its first choice, so that no text and no tool
\* call of another choice is in it.
C39_FirstChoiceOnly ==
    /\ respPc \in {"ok", "err"} => (respPc = "err" <=> Len(oresp.choices) = 0)
    /\ respPc = "err" => aresp = <<>>
    /\ respPc = "ok" =>
          /\ aresp = mapOpenAIToAnthropic([oresp EXCEPT !.choices = <<oresp.choices[1]>>])
          /\ \A i \in 1..Len(aresp.content) :
                /\ aresp.content[i].type = "text" => aresp.content[i].text # <<"O">>
                /\ aresp.content[i].type = "tool_use" => aresp.content[i].id # <<"call", "9">>
          /\ Len(ToolUseBlocks) = Len(FirstToolCalls)

\* A response of two choices was mapped: the result holds the text and the
\* tool call of the first one and nothing else.
C39_Witness ==
    /\ respPc = "ok"
    /\ Len(oresp.choices) = 2
    /\ oresp.choices[2] = OtherChoice
    /\ aresp.content = <<TextBlock(<<"H", "i">>),
                         ToolUseBlock(<<"call", "1">>, <<"fn", "1">>, JsonParse(ArgsObjA))>>

\* ================================================================
\* Properties of AnthropicToOpenAI / ConvertMessagesToOpenAI
\* ================================================================
\* The content blocks of a message content, as written in the request.
BlocksOf(raw) ==
    IF raw.kind = "string" THEN <<WireText(raw.text)>>
    ELSE IF raw.kind = "array" THEN raw.blocks
    ELSE <<>>

\* The messages of the result that were built from source message k.
OutOf(k) ==
    LET idx == SortAsc({i \in 1..Len(oreqSrc) : oreqSrc[i] = k})
    IN [j \in 1..Len(idx) |-> oreq.messages[idx[j]]]

ResultPositions(bs) == {i \in 1..Len(bs) : bs[i].type = "tool_result"}

\* The non-blank texts after position r and before the next tool_result.
RunAfter(bs, r) ==
    LET ps == SortAsc({i \in (r + 1)..Len(bs) :
                          /\ bs[i].type = "text" /\ ~IsBlank(bs[i].text)
                          /\ \A q \in ResultPositions(bs) : ~(r < q /\ q < i)})
    IN [j \in 1..Len(ps) |-> bs[ps[j]].text]

ExpectedRun(bs, r) ==
    IF RunAfter(bs, r) = <<>> THEN <<>>
    ELSE <<[role |-> "user", id |-> <<>>, isText |-> TRUE, text |-> JoinBlankLine(RunAfter(bs, r))]>>

ExpectedResult(b) ==
    [role |-> "tool", id |-> b.tool_use_id, isText |-> b.content.kind = "string",
     text |-> b.content.text]

\* What a user message with the blocks bs is to yield, in order.
ExpectedUser(bs) ==
    LET rs == SortAsc(ResultPositions(bs))
    IN ExpectedRun(bs, 0)
       \o Flatten([j \in 1..Len(rs) |-> <<ExpectedResult(bs[rs[j]])>> \o ExpectedRun(bs, rs[j])])

MatchesExpected(ms, exp) ==
    /\ Len(ms) = Len(exp)
    /\ \A i \in 1..Len(exp) :
          /\ ms[i].role = exp[i].role
          /\ ms[i].tool_call_id = exp[i].id
          /\ ms[i].tool_calls = <<>>
          /\ ms[i].content.kind = "string"
          /\ exp[i].isText => ms[i].content.text = exp[i].text

\* C11: a user message yields, in the order of its blocks, one tool message
\* per tool_result block (same call id, content as a string) and one user
\* message per maximal run of non-blank text blocks that no tool_result
\* separates, holding their blank-line concatenation.
C11_UserBlocksInOrder ==
    a2oPc = "ok" =>
        \A k \in 1..Len(areq.messages) :
            areq.messages[k].role = "user" =>
                MatchesExpected(OutOf(k), ExpectedUser(BlocksOf(areq.messages[k].content)))

\* Text A, tool_result(call_1, RESULT), text B gave user(A), tool(call_1,
\* RESULT), user(B).
C11_Witness ==
    /\ a2oPc = "ok"
    /\ Len(areq.messages) = 1 /\ areq.messages[1].role = "user"
    /\ areq.messages[1].content =
          RawArray(<<WireText(TextA),
                     WireToolResult(<<"call", "1">>, StringContent(TextResult)),
                     WireText(TextB)>>)
    /\ OutOf(1) = <<OpenAIMessage("user", StringContent(TextA), <<>>, <<>>),
                    OpenAIMessage("tool", StringContent(TextResult), <<"call", "1">>, <<>>),
                    OpenAIMessage("user", StringContent(TextB), <<>>, <<>>)>>

\* A content that is there and is neither a string nor a list of blocks.
Unsupported(raw) == raw.kind \notin {"absent", "null", "string", "array"}

SystemTextsOf(raw) ==
    IF raw.kind = "string" THEN (IF IsBlank(raw.text) THEN <<>> ELSE <<raw.text>>)
    ELSE IF raw.kind = "array"
    THEN LET ps == SortAsc({i \in 1..Len(raw.blocks) :
                              raw.blocks[i].type = "text" /\ ~IsBlank(raw.blocks[i].text)})
         IN [j \in 1..Len(ps) |-> raw.blocks[ps[j]].text]
    ELSE <<>>

SystemPositions == {i \in 1..Len(oreq.messages) : oreq.messages[i].role = "system"}

\* C15: the output list has at most one system message; it is there exactly
\* when the system content has non-blank text, it is then the first message
\* and holds that text (the texts of an array joined with a blank line).
C15_OneLeadingSystemMessage ==
    a2oPc = "ok" =>
        /\ Cardinality(SystemPositions) <= 1
        /\ (SystemPositions # {}) <=> (SystemTextsOf(areq.system) # <<>>)
        /\ SystemPositions # {} =>
              /\ SystemPositions = {1}
              /\ oreq.messages[1].content = StringContent(JoinBlankLine(SystemTextsOf(areq.system)))

\* A request with an array system content of two non-blank texts and a
\* blank one, and two messages, one of them of role system: the result
\* starts with the one system message.
C15_Witness ==
    /\ a2oPc = "ok"
    /\ areq.system = RawArray(<<WireText(TextS), WireText(ArgsBlank), WireText(TextT)>>)
    /\ Len(areq.messages) = 2
    /\ areq.messages[1].role = "user" /\ areq.messages[1].content = RawString(TextA)
    /\ areq.messages[2].role = "assistant"
    /\ Len(oreq.messages) = 3
    /\ oreq.messages[1] = OpenAIMessage("system", StringContent(<<"S", "\n\n", "T">>), <<>>, <<>>)

\* ----------------------------------------------------------- round trip
\* The blocks of the user and assistant messages of the source request,
\* each with the role of its message.
SourceBlocks ==
    UNION {{[role |-> areq.messages[k].role, block |-> BlocksOf(areq.messages[k].content)[i]] :
               i \in 1..Len(BlocksOf(areq.messages[k].content))} :
           k \in {q \in 1..Len(areq.messages) : areq.messages[q].role \in {"user", "assistant"}}}

\* The blocks of the request mapped back.
BackBlocks ==
    UNION {{[role |-> areqOut.messages[k].role, block |-> BlocksOf(areqOut.messages[k].content)[i]] :
               i \in 1..Len(BlocksOf(areqOut.messages[k].content))} :
           k \in 1..Len(areqOut.messages)}

\* The text t is t2, or one of the texts t2 joins with blank lines.
TextCovers(t2, t) ==
    \E i \in 1..Len(t2) :
        LET j == i + Len(t) - 1 IN
        /\ j <= Len(t2) /\ SubSeq(t2, i, j) = t
        /\ i = 1 \/ t2[i - 1] = "\n\n"
        /\ j = Len(t2) \/ t2[j + 1] = "\n\n"

\* The same arguments: both missing, or JSON texts of the same value.
SameInput(x, y) ==
    IF x.kind = "json" /\ y.kind = "json" THEN JsonParse(x.text) = JsonParse(y.text)
    ELSE x.kind # "json" /\ y.kind # "json"

SamePayload(b, c) ==
    /\ b.type = c.type
    /\ b.type = "text" => TextCovers(c.text, b.text)
    /\ b.type = "tool_use" => b.id = c.id /\ b.name = c.name /\ SameInput(b.input, c.input)
    /\ b.type = "tool_result" => b.tool_use_id = c.tool_use_id /\ b.content = c.content

\* C17 as stated: every text, tool_use and tool_result block of the user
\* and assistant messages of an accepted request has, after the round trip,
\* a block of the same kind with equal payload.
C17_RoundTripKeepsEveryBlock ==
    (a2oPc = "ok" /\ o2aPc = "ok") =>
        \A s \in SourceBlocks :
            s.block.type \in {"text", "tool_use", "tool_result"}
                => \E t \in BackBlocks : SamePayload(s.block, t.block)

\* The arguments as a value, the empty object standing for missing ones.
InputValue(x) == IF x.kind = "json" THEN JsonParse(x.text) ELSE EmptyObject

\* The content of a tool result as a string.
ResultString(c) ==
    IF c.kind = "string" THEN c.text
    ELSE IF c.kind = "nil" THEN <<>>
    ELSE JsonMarshal(c.value)

KeptPayload(b, c) ==
    /\ b.type = c.type
    /\ b.type = "text" => TextCovers(c.text, b.text)
    /\ b.type = "tool_use" =>
          /\ b.id = c.id /\ b.name = c.name
          /\ c.input.kind = "json" /\ InputValue(b.input) = InputValue(c.input)
    /\ b.type = "tool_result" =>
          b.tool_use_id = c.tool_use_id /\ c.content = StringContent(ResultString(b.content))

\* C17 as amended: the blocks that are kept are the non-blank texts, the
\* tool_use blocks of assistant messages and the tool_result blocks of user
\* messages; missing arguments come back as {}, a tool result's content
\* comes back as a string.
C17_RoundTripKeepsMappedBlocks ==
    (a2oPc = "ok" /\ o2aPc = "ok") =>
        \A s \in SourceBlocks :
            (\/ s.block.type = "text" /\ ~IsBlank(s.block.text)
             \/ s.block.type = "tool_use" /\ s.role = "assistant"
             \/ s.block.type = "tool_result" /\ s.role = "user")
                => \E t \in BackBlocks : t.role = s.role /\ KeptPayload(s.block, t.block)

\* An assistant message with a text and a tool_use block whose arguments
\* hold white space went through both mappers: the same text, id and name
\* come back, and the arguments compacted.
C17_Witness ==
    /\ a2oPc = "ok" /\ o2aPc = "ok"
    /\ areq.messages =
          <<AnthropicMsg("assistant",
              RawArray(<<WireText(TextA),
                         WireToolUse(<<"call", "1">>, <<"fn", "1">>, RawJson(ArgsSpaced))>>))>>
    /\ areqOut.messages =
          <<AnthropicMsg("assistant",
              RawArray(<<WireText(TextA),
                         WireToolUse(<<"call", "1">>, <<"fn", "1">>, RawJson(ArgsObjA))>>))>>

\* C38 (as claimed): a request whose system field is there and is neither a
\* string nor a list of content blocks makes AnthropicToOpenAI return an
\* error; no request is returned for it.
C38_UnsupportedSystemFails ==
    (a2oPc \in {"ok", "err"} /\ Unsupported(areq.system)) => a2oPc = "err"

\* ================================================================
\* Properties of OpenAIToAnthropicRequest
\* ================================================================
\* C13: a user, assistant or system message whose content is neither a
\* string nor a list of parts makes the call fail; it is never dropped
\* silently from a request the call returns.
C13_UnsupportedShapeFails ==
    o2aPc = "ok" =>
        \A k \in 1..Len(oreq.messages) :
            oreq.messages[k].role \in {"user", "assistant", "system"}
                => oreq.messages[k].content.kind # "other"

\* The positions in the output of the messages built from source message k.
BackOf(k) == {i \in 1..Len(areqSrc) : areqSrc[i] = k}

\* C31 (as claimed): every tool message yields exactly one user message
\* holding exactly one tool_result block with the same call id and content,
\* and every assistant message with calls yields one assistant message whose
\* tool_use blocks carry, in call-list order, the id, name and arguments of
\* its calls, after the text blocks.
C31_ToolResultsAndCallsMapped ==
    o2aPc = "ok" =>
        \A k \in 1..Len(oreq.messages) :
            LET m == oreq.messages[k] IN
            /\ m.role = "tool" =>
                  \E i \in BackOf(k) :
                      /\ BackOf(k) = {i}
                      /\ areqOut.messages[i].role = "user"
                      /\ areqOut.messages[i].content.kind = "array"
                      /\ Len(areqOut.messages[i].content.blocks) = 1
                      /\ LET b == areqOut.messages[i].content.blocks[1] IN
                            /\ b.type = "tool_result"
                            /\ b.tool_use_id = m.tool_call_id
                            /\ m.content.kind = "string" => b.content = StringContent(m.content.text)
            /\ (m.role = "assistant" /\ m.tool_calls # <<>>) =>
                  \E i \in BackOf(k) :
                      /\ BackOf(k) = {i}
                      /\ areqOut.messages[i].role = "assistant"
                      /\ areqOut.messages[i].content.kind = "array"
                      /\ LET bs == areqOut.messages[i].content.blocks
                             uses == SelectSeq(bs, LAMBDA b : b.type = "tool_use")
                         IN /\ Len(uses) = Len(m.tool_calls)
                            /\ \A j \in 1..Len(uses) :
                                  /\ uses[j].id = m.tool_calls[j].id
                                  /\ uses[j].name = m.tool_calls[j].name
                                  /\ m.tool_calls[j].arguments # <<>> =>
                                        uses[j].input = RawJson(Strip(m.tool_calls[j].arguments))
                            /\ \A p, q \in 1..Len(bs) :
                                  (bs[p].type = "text" /\ bs[q].type = "tool_use") => p < q

\* The messages of the output built from source message k, in output order.
BackMsgs(k) ==
    LET idx == SortAsc(BackOf(k)) IN [j \in 1..Len(idx) |-> areqOut.messages[idx[j]]]

\* src is in source order: no message built from a later source message
\* comes before one built from an earlier one.
InSourceOrder(src) == \A i, j \in 1..Len(src) : i < j => src[i] <= src[j]

\* C32: both request mappers keep the order of the messages: the messages
\* built from source message i all come before those built from source
\* message j when i < j, after the leading system message in
\* ConvertMessagesToOpenAI, and the messages built from one source message
\* are those it yields when it is mapped alone.
C32_MessageOrderPreserved ==
    /\ a2oPc = "ok" =>
          /\ InSourceOrder(oreqSrc)
          /\ Len(oreqSrc) = Len(oreq.messages)
          /\ \A i \in 1..Len(oreqSrc) :
                oreqSrc[i] = 0 => (i = 1 /\ oreq.messages[i].role = "system")
          /\ \A k \in 1..Len(areq.messages) :
                OutOf(k) = ConvertFrom(<<areq.messages[k]>>, 1,
                                       [err |-> FALSE, out |-> <<>>, src |-> <<>>]).out
    /\ o2aPc = "ok" =>
          /\ InSourceOrder(areqSrc)
          /\ Len(areqSrc) = Len(areqOut.messages)
          /\ \A k \in 1..Len(oreq.messages) :
                BackMsgs(k) = RequestFrom(<<oreq.messages[k]>>, 1,
                                  [systemStr |-> <<>>, msgs |-> <<>>, src |-> <<>>]).msgs

\* A request with a system text and two messages was mapped to a system
\* message followed by the images of the two in order, and mapping that
\* back gave the two images in order again.
C32_Witness ==
    /\ a2oPc = "ok" /\ o2aPc = "ok"
    /\ Len(areq.messages) = 2
    /\ areq.messages[1].role = "assistant" /\ areq.messages[2].role = "user"
    /\ oreqSrc = <<0, 1, 2>>
    /\ oreq.messages[2].role = "assistant" /\ oreq.messages[3].role = "user"
    /\ areqSrc = <<2, 3>>
    /\ areqOut.messages[1].role = "assistant" /\ areqOut.messages[2].role = "user"

\* The tool_use blocks of the mapped request, each with the call it was
\* built from: block j of a message is call j of its source message.
MappedToolUses ==
    {<<i, j>> \in (1..Len(areqOut.messages)) \X (1..(MaxParts + MaxToolCalls + 2)) :
        /\ areqOut.messages[i].content.kind = "array"
        /\ j <= Len(areqOut.messages[i].content.blocks)
        /\ areqOut.messages[i].content.blocks[j].type = "tool_use"}

SourceCallOf(i, j) ==
    LET bs == areqOut.messages[i].content.blocks
        n == Cardinality({q \in 1..j : bs[q].type = "tool_use"})
    IN oreq.messages[areqSrc[i]].tool_calls[n]

\* C14 (for OpenAIToAnthropicRequest): every tool invocation of the output
\* carries an input that is present and not null, and it is the empty
\* object when the source arguments were empty.
C14_ArgumentsNeverMissing ==
    o2aPc = "ok" =>
        \A p \in MappedToolUses :
            LET b == areqOut.messages[p[1]].content.blocks[p[2]] IN
            /\ b.input.kind = "json"
            /\ SourceCallOf(p[1], p[2]).arguments = <<>> => Strip(b.input.text) = EmptyObjectText

\* The text a system message contributes: its string, or the non-blank
\* texts of its text parts joined with a blank line.
SystemTextOfMessage(m) ==
    IF m.content.kind = "string" THEN m.content.text
    ELSE IF m.content.kind = "array"
    THEN LET ps == SortAsc({i \in 1..Len(m.content.parts) :
                              /\ m.content.parts[i].type = "text"
                              /\ ~IsBlank(m.content.parts[i].text)})
         IN JoinBlankLine([j \in 1..Len(ps) |-> m.content.parts[ps[j]].text])
    ELSE <<>>

\* The system messages of the source whose content is not empty.
NonEmptySystems ==
    {k \in 1..Len(oreq.messages) :
        oreq.messages[k].role = "system" /\ SystemTextOfMessage(oreq.messages[k]) # <<>>}

\* C16: the system field of the mapped request comes from the first system
\* message, in message order, whose content is not empty; later system
\* messages do not change it, and no system message is in the mapped list.
C16_FirstSystemWins ==
    o2aPc = "ok" =>
        /\ IF NonEmptySystems = {} THEN areqOut.system = RawAbsent
           ELSE LET first == CHOOSE k \in NonEmptySystems : \A j \in NonEmptySystems : k <= j
                IN areqOut.system = RawString(SystemTextOfMessage(oreq.messages[first]))
        /\ \A i \in 1..Len(areqOut.messages) : areqOut.messages[i].role # "system"

\* Two system messages with the texts S and T, in this order: the system
\* field is S.
C16_Witness ==
    /\ o2aPc = "ok"
    /\ Len(oreq.messages) = 2
    /\ oreq.messages[1] = OpenAIMessage("system", StringContent(TextS), <<>>, <<>>)
    /\ oreq.messages[2] = OpenAIMessage("system", StringContent(TextT), <<>>, <<>>)
    /\ areqOut.system = RawString(TextS)
    /\ areqOut.messages = <<>>

\* C29: AnthropicToOpenAI yields one tool of type "function" per source tool
\* definition, in the same order, with the name, the description and the
\* schema of its source; OpenAIToAnthropicRequest applied to the request
\* returned gives back the source list of tool definitions.
C29_ToolsOneToOne ==
    /\ a2oPc = "ok" =>
          /\ Len(oreq.tools) = Len(areq.tools)
          /\ \A i \in 1..Len(areq.tools) :
                /\ oreq.tools[i].type = "function"
                /\ oreq.tools[i].function.name = areq.tools[i].name
                /\ oreq.tools[i].function.description = areq.tools[i].description
                /\ oreq.tools[i].function.parameters = areq.tools[i].input_schema
    /\ (a2oPc = "ok" /\ o2aPc = "ok") => areqOut.tools = areq.tools

\* Two tool definitions of the same name, the second without description
\* and with a nil schema, went there and back.
C29_Witness ==
    /\ a2oPc = "ok" /\ o2aPc = "ok"
    /\ areq.tools = <<AnthropicTool(<<"alpha">>, <<"d">>, JsonObject({<<"a", <<"1">>>>})),
                      AnthropicTool(<<"alpha">>, <<>>, JsonNull)>>
    /\ Len(oreq.tools) = 2
    /\ areqOut.tools = areq.tools

\* ================================================================
\* Properties of AnthropicToOpenAIResponse after OpenAIToAnthropic
\* ================================================================
\* C18: a B response whose first choice has no tool calls, mapped with
\* OpenAIToAnthropic and back with AnthropicToOpenAIResponse, has the finish
\* reason "stop", whatever finish reason it reported.
C18_NoToolCallsFinishStop ==
    (respPc = "back" /\ Len(oresp.choices[1].message.tool_calls) = 0)
        => bresp.choices[1].finish_reason = "stop"

\* C30: the response AnthropicToOpenAIResponse returns has exactly one
\* choice, of index 0, whose finish reason is "tool_calls" when the stop
\* reason of the source is "tool_use" and "stop" otherwise, tool_use blocks
\* or not, and it has no usage.
C30_FinishFromStopReason ==
    respPc = "back" =>
        /\ Len(bresp.choices) = 1
        /\ bresp.choices[1].index = 0
        /\ bresp.choices[1].finish_reason =
              (IF aresp.stop_reason = Ptr("tool_use") THEN "tool_calls" ELSE "stop")
        /\ bresp.usage.nil

\* A response without stop reason, with a tool_use block and with usage,
\* was mapped: the finish reason is "stop" and the tool call is there.
C30_Witness ==
    /\ respPc = "back"
    /\ aresp.stop_reason.nil /\ ~aresp.usage.nil
    /\ \E i \in 1..Len(aresp.content) : aresp.content[i].type = "tool_use"
    /\ bresp.choices[1].finish_reason = "stop"
    /\ Len(bresp.choices[1].message.tool_calls) >= 1

\* ================================================================
\* Properties of both stream translators
\* ================================================================
\* The target call index handed out at the tool_use start of iteration q.
IndexHandedOut(q) == Cardinality({s \in ToolStarts : s < q})

\* C22: accumulation is keyed by the source's positional index only. In the
\* forward translator the deltas of one call index end in one tool_use block
\* whatever their ids and names, and the deltas of different call indices in
\* different blocks also when their ids and names are equal or empty. In the
\* reverse translator an argument fragment goes to the call index handed out
\* at the last tool_use start of its own content-block index.
C22_KeyedByPositionalIndex ==
    /\ fwdPc = "done" =>
          /\ Cardinality(ToolStartsOut) = Cardinality(SeenCalls)
          /\ {fwdSrc[i] : i \in ToolStartsOut} = SeenCalls
          /\ \A i \in ToolStartsOut :
                fwdOut[i].content_block.input = ExpectedStreamInput(AllArgs(fwdSrc[i]))
    /\ \A i \in ArgsChunks :
          LET q == LastStartBefore(ToolStarts, revSrc[i], SrcBlock(i))
          IN q # 0 /\ ToolIdxOf(revOut[i]) = IndexHandedOut(q)

\* Forward: call index 0 received deltas under the ids call2 and call1 and
\* another call index a delta under the id call1; two blocks were emitted,
\* both with id call1 and name fn1. Reverse: blocks 1 and 2 were both
\* started as call1/fn1 and a fragment of block 2 was sent with call index 1.
C22_Witness ==
    /\ fwdPc = "done"
    /\ Cardinality(ToolStartsOut) = 2
    /\ \E i, j \in ToolStartsOut :
          /\ i # j
          /\ fwdOut[i].content_block.id = fwdOut[j].content_block.id
          /\ fwdOut[i].content_block.name = fwdOut[j].content_block.name
    /\ \E i, j \in 1..Len(AllCalls) :
          /\ AllCalls[i].index = AllCalls[j].index
          /\ AllCalls[i].id # <<>> /\ AllCalls[j].id # <<>> /\ AllCalls[i].id # AllCalls[j].id
    /\ \E n1, n2 \in NameChunks : \E a \in ArgsChunks :
          /\ n1 < n2 /\ n2 < a
          /\ SrcBlock(n1) = 1 /\ SrcBlock(n2) = 2 /\ SrcBlock(a) = 2
          /\ ToolIdxOf(revOut[a]) = 1

\* C25: neither translator ends with an error because of a line: it returns
\* an error only when the context is done, whatever lines that are not
\* JSON, lack the expected prefix or name an unknown event it has read.
C25_NoAbortOnBadLine ==
    /\ fwdPc = "err" => ctxDone
    /\ revPc = "err" => ctxDone
    /\ ~ctxDone =>
          /\ fwdPc \in {"start", "loop", "done"}
          /\ revPc \in {"loop", "data", "done"}

\* Never cancelled, both translators returned nil: the forward one after a
\* line that is not JSON, the reverse one after a stray line, a payload that
\* is not JSON and an unknown event.
C25_Witness ==
    /\ ~ctxDone
    /\ fwdPc = "done" /\ revPc = "done"
    /\ \E i \in 1..Len(fwdIn) : fwdIn[i].kind = "badjson"
    /\ \E i, j, k \in 1..Len(revIn) :
          /\ revIn[i] = <<StrayLine>>
          /\ revIn[j] = <<EventLine("content_block_delta"), DataLine(BadJson)>>
          /\ revIn[k] = <<EventLine("ping"), DataLine(NoPayload)>>

\* The forward translator run alone: its locals and its output after the
\* loop iterations that read lines[k..], from the locals and output st.
RECURSIVE FwdAloneFrom(_, _, _)
FwdAloneFrom(lines, k, st) ==
    IF k > Len(lines) THEN st
    ELSE LET l == lines[k] IN
         IF l.kind # "chunk" \/ l.choices = <<>> THEN FwdAloneFrom(lines, k + 1, st)
         ELSE LET d == l.choices[1]
                  evs == IF d.content = <<>> THEN <<>>
                         ELSE (IF st.sent THEN <<>> ELSE <<TextBlockStart>>)
                              \o <<TextBlockDelta(d.content)>>
              IN FwdAloneFrom(lines, k + 1,
                     [sent |-> st.sent \/ d.content # <<>>,
                      total |-> st.total \o d.content,
                      tb |-> ApplyToolCalls(st.tb, d.tool_calls),
                      out |-> st.out \o evs])

FwdAlone(lines) ==
    FwdAloneFrom(lines, 1, [sent |-> FALSE, total |-> <<>>, tb |-> EmptyMap,
                            out |-> <<MessageStart>>])

\* The reverse translator run alone: one event/data pair from the locals and
\* output st.
RevAlonePair(st, ev, p) ==
    CASE ev = "message_start" /\ ~st.roleSent ->
           [st EXCEPT !.roleSent = TRUE, !.out = Append(@, send(RoleDelta, ""))]
      [] ev = "content_block_start" /\ JsonOk(p) /\ HasBlock(p) ->
           IF StrField(p.content_block, "type") # <<"tool_use">> THEN st
           ELSE [st EXCEPT
                   !.map = RecordMapping(@, IndexOf(p), st.next),
                   !.next = @ + 1,
                   !.out = Append(@, send(NameDelta(StrField(p.content_block, "id"), st.next,
                                                    StrField(p.content_block, "name")), ""))]
      [] ev = "content_block_delta" /\ JsonOk(p) /\ HasDelta(p) ->
           IF StrField(p.delta, "type") = <<"text_delta">>
           THEN IF StrField(p.delta, "text") = <<>> THEN st
                ELSE [st EXCEPT !.out = Append(@, send(ContentDelta(p.delta.text), ""))]
           ELSE IF /\ StrField(p.delta, "type") = <<"input_json_delta">>
                   /\ IndexOf(p) \in DOMAIN st.map
           THEN [st EXCEPT
                   !.args = AppendArgs(@, st.map[IndexOf(p)], PieceOf(p.delta)),
                   !.out = Append(@, send(ArgsDelta(st.map[IndexOf(p)], PieceOf(p.delta)), ""))]
           ELSE st
      [] ev = "message_stop" -> [st EXCEPT !.out = Append(@, send(EmptyDelta, "stop"))]
      [] OTHER -> st

RECURSIVE RevAloneFrom(_, _, _)
RevAloneFrom(its, k, st) ==
    IF k > Len(its) THEN st
    ELSE LET it == its[k] IN
         IF Len(it) = 2 /\ it[1].kind = "event" /\ it[2].kind = "data"
         THEN RevAloneFrom(its, k + 1, RevAlonePair(st, it[1].ev, it[2].payload))
         ELSE RevAloneFrom(its, k + 1, st)

RevAlone(its) ==
    RevAloneFrom(its, 1, [roleSent |-> FALSE, next |-> 0, map |-> EmptyMap,
                          args |-> EmptyMap, out |-> <<>>])

Owed(before, after) == SubSeq(after, Len(before) + 1, Len(after))

\* C28: in both translators every output unit produced from an input line is
\* emitted in the step that reads the line, hence before the next line is
\* read, and a step that reads nothing emits nothing for the reverse
\* translator; what the forward translator emits later is the closing
\* sequence, whose only content taken from input lines is the tool_use blocks,
\* and no tool_use block is out while the loop runs.
C28_EmittedBeforeNextRead ==
    [][/\ fwdIn' # fwdIn =>
             LET closing == IF fwdPc' = "done"
                            THEN Closing(sentTextStart', totalText', toolByIdx') ELSE <<>>
             IN fwdOut' = fwdOut \o Owed(FwdAlone(fwdIn).out, FwdAlone(fwdIn').out)
                                 \o [i \in 1..Len(closing) |-> closing[i].ev]
       /\ (fwdIn' = fwdIn /\ fwdOut' # fwdOut) =>
             \A i \in Len(fwdOut) + 1..Len(fwdOut') :
                 fwdOut'[i].event \notin {"content_block_delta"}
                     /\ (fwdOut'[i].event = "content_block_start" => IsToolStart(fwdOut'[i]))
       /\ fwdPc' = "loop" => \A i \in 1..Len(fwdOut') : ~IsToolStart(fwdOut'[i])
       /\ revIn' # revIn =>
             revOut' = revOut \o Owed(RevAlone(revIn).out, RevAlone(revIn').out)
       /\ revIn' = revIn => revOut' = revOut]_vars

\* The forward translator read a tool-call delta, then a text delta whose
\* events it emitted at once, and emitted the tool_use block at the end of
\* the input; the reverse translator then emitted the chunk of a text delta
\* and is back at the head of its loop.
C28_Witness ==
    /\ fwdPc = "done"
    /\ fwdIn = <<ChunkLine(<<Choice(<<>>, <<ArgsOnlyDelta(0, PieceA)>>)>>),
                 ChunkLine(<<Choice(TextHe, <<>>)>>)>>
    /\ SubSeq(fwdOut, 1, 3) = <<MessageStart, TextBlockStart, TextBlockDelta(TextHe)>>
    /\ \E i \in 4..Len(fwdOut) : IsToolStart(fwdOut[i])
    /\ revPc = "loop"
    /\ revOut = <<send(ContentDelta(<<"Hi">>), "")>>

\* C40: on every finite input both stream translators terminate. Every step
\* of a translator in its loop reads one more line or leaves the loop; the
\* forward translator that leaves its loop without an error appends its
\* closing sequence, which ends with message_stop; and both translators
\* return, with nil, or with the cancellation error only if the context is
\* done.
C40_Terminates ==
    /\ [][(fwdPc = "loop" /\ fwdVars' # fwdVars) =>
            \/ fwdPc' = "loop" /\ Len(fwdIn') = Len(fwdIn) + 1
            \/ fwdPc' = "err" /\ ctxDone /\ fwdOut' = fwdOut
            \/ /\ fwdPc' = "done" /\ Len(fwdIn') \in {Len(fwdIn), Len(fwdIn) + 1}
               /\ LET cl == Closing(sentTextStart, totalText, toolByIdx) IN
                     fwdOut' = fwdOut \o [i \in 1..Len(cl) |-> cl[i].ev]
               /\ fwdOut'[Len(fwdOut')] = MessageStop]_vars
    /\ [][(revPc \in {"loop", "data"} /\ revVars' # revVars) =>
            \/ revPc' \in {"loop", "data"} /\ Len(Flatten(revIn')) = Len(LinesRead) + 1
            \/ revPc' = "err" /\ ctxDone
            \/ revPc' = "done"]_vars
    /\ [][(FwdReturned => fwdVars' = fwdVars)
            /\ (revPc \in {"done", "err"} => revVars' = revVars)]_vars
    /\ <>(FwdReturned /\ revPc \in {"done", "err"})

\* Both translators have returned: the forward one at the terminator after a
\* skipped line and a text delta, the reverse one with the cancellation
\* error after a pair whose data line was dropped.
C40_Witness ==
    /\ fwdPc = "done"
    /\ fwdIn = <<FwdPlainLine("stray"), ChunkLine(<<Choice(TextHe, <<>>)>>), FwdPlainLine("done")>>
    /\ revPc = "err" /\ ctxDone
    /\ revIn = <<<<EventLine("message_start"), StrayLine>>>>

\* C26 (as claimed): once the context is done no translator reads a further
\* line or emits a further output unit, and a translator that returns then
\* returns the cancellation error; in particular a translator called with a
\* context that is already done emits nothing.
C26_NothingAfterCancellation ==
    [][ctxDone =>
          /\ fwdIn' = fwdIn /\ fwdOut' = fwdOut
          /\ revIn' = revIn /\ revOut' = revOut
          /\ fwdPc' = "done" => fwdPc = "done"
          /\ revPc' = "done" => revPc = "done"]_vars

\* ================================================================
\* Properties of proxyToAnthropicStream
\* ================================================================
DonePositions == {i \in 1..Len(Response) : Response[i] = DoneOut}

\* C24: the translator hands no terminator to its callback; the handler
\* writes the terminator once, after the translator has returned and after
\* the line of every chunk, as the last line of the response, also when the
\* translator returned the cancellation error or stopped at a truncated input.
C24_DoneOnceAtEnd ==
    /\ \A i \in 1..Len(revOut) : Response[i] = DataOut(revOut[i]) /\ Response[i] # DoneOut
    /\ hPc = "stream" => DonePositions = {}
    /\ hPc = "done" =>
          /\ revPc \in {"done", "err"}
          /\ DonePositions = {Len(revOut) + 1}
          /\ Len(Response) = Len(revOut) + 1

\* The translator was cancelled after it had emitted a chunk, and the
\* handler has returned.
C24_Witness ==
    /\ hPc = "done"
    /\ revPc = "err"
    /\ Len(revOut) >= 1
    /\ Response[Len(Response)] = DoneOut

====
